---- MODULE Spec2Model ----
(***************************************************************************)
(* Handler registries (ActionManager, EventManager), their folder loaders  *)
(* and the snapshot getter of the discord.js bot template.                 *)
(*                                                                         *)
(* A Collection is a Map: here a function from key strings to handler      *)
(* records.  Collections are objects: the managers hold a reference to     *)
(* theirs, and `all` hands out a reference to a clone, so the model keeps  *)
(* a small heap of collections.                                            *)
(***************************************************************************)
EXTENDS Integers, Sequences, FiniteSets, TLC

---------------------------------------------------------------------------
(* Bounds of the model *)

\* number of distinct callback functions a handler record may carry
NumCallbacks == 2

\* number of directory entries below the root of a scanned tree
MaxNodes == 3

---------------------------------------------------------------------------
(* Values *)

\* JavaScript null / undefined result of a lookup
NULL == [null |-> TRUE]

\* no exception was thrown
NoError == [name |-> "none", code |-> "none"]

\* new CustomError(code, message, context): name 'CustomError', code set
CustomError(code) == [name |-> "CustomError", code |-> code]

\* new Error(message): no code property
JsError(message) == [name |-> "Error", code |-> "undefined", message |-> message]

\* the twelve members of the ActionType enum
ActionType ==
  { "ChatInput", "MessageContext", "UserContext", "StringSelectMenu",
    "UserSelectMenu", "RoleSelectMenu", "MentionableSelectMenu",
    "ChannelSelectMenu", "SelectMenu", "Button", "Autocomplete", "ModalSubmit" }

\* new Collection()
EmptyMap == [k \in {} |-> NULL]

\* Map.prototype.set
MapSet(m, k, v) == [x \in (DOMAIN m) \cup {k} |-> IF x = k THEN v ELSE m[x]]

\* Map.prototype.delete
MapDelete(m, k) == [x \in (DOMAIN m) \ {k} |-> m[x]]

\* Map.prototype.get, with the managers' `|| null`
MapGet(m, k) == IF k \in DOMAIN m THEN m[k] ELSE NULL

---------------------------------------------------------------------------
(* ActionManager: the pure part of each method, on the collection's value.  *)
(* Each mutating method returns the new collection and what it threw.      *)

getTypePrefix_dup(type) ==
  CASE type = "ChatInput" -> "chat-input"
    [] type = "MessageContext" -> "message-context"
    [] type = "UserContext" -> "user-context"
    [] type = "StringSelectMenu" -> "string-select-menu"
    [] type = "UserSelectMenu" -> "user-select-menu"
    [] type = "RoleSelectMenu" -> "role-select-menu"
    [] type = "MentionableSelectMenu" -> "mentionable-select-menu"
    [] type = "ChannelSelectMenu" -> "channel-select-menu"
    [] type = "SelectMenu" -> "select-menu"
    [] type = "Button" -> "chat-input"
    [] type = "Autocomplete" -> "autocomplete"
    [] type = "ModalSubmit" -> "modal-submit"
    [] OTHER -> "unknown"

getTypePrefix_fallback(type) ==
  CASE type = "ChatInput" -> "chat-input"
    [] type = "MessageContext" -> "message-context"
    [] type = "UserContext" -> "user-context"
    [] type = "StringSelectMenu" -> "string-select-menu"
    [] type = "UserSelectMenu" -> "user-select-menu"
    [] type = "RoleSelectMenu" -> "role-select-menu"
    [] type = "MentionableSelectMenu" -> "mentionable-select-menu"
    [] type = "ChannelSelectMenu" -> "channel-select-menu"
    [] type = "SelectMenu" -> "select-menu"
    [] type = "Button" -> "button"
    [] type = "Autocomplete" -> "autocomplete"
    [] type = "ModalSubmit" -> "modal-submit"
    [] OTHER -> "button"

getTypePrefix(type) ==
  CASE type = "ChatInput" -> "chat-input"
    [] type = "MessageContext" -> "message-context"
    [] type = "UserContext" -> "user-context"
    [] type = "StringSelectMenu" -> "string-select-menu"
    [] type = "UserSelectMenu" -> "user-select-menu"
    [] type = "RoleSelectMenu" -> "role-select-menu"
    [] type = "MentionableSelectMenu" -> "mentionable-select-menu"
    [] type = "ChannelSelectMenu" -> "channel-select-menu"
    [] type = "SelectMenu" -> "select-menu"
    [] type = "Button" -> "button"
    [] type = "Autocomplete" -> "autocomplete"
    [] type = "ModalSubmit" -> "modal-submit"
    [] OTHER -> "unknown"

\* prefix + '-' + identifier
ActionKey(type, identifier) == getTypePrefix(type) \o "-" \o identifier

ActionManager_register_keep(collection, action, force) ==
  LET identifier == ActionKey(action.type, action.identifier) IN
  IF identifier \in DOMAIN collection
  THEN [collection |-> collection, threw |-> NoError]
  ELSE [collection |-> MapSet(collection, identifier, action), threw |-> NoError]

ActionManager_register(collection, action, force) ==
  LET identifier == ActionKey(action.type, action.identifier) IN
  IF identifier \in DOMAIN collection /\ ~force
  THEN [collection |-> collection, threw |-> JsError("already exists")]
  ELSE [collection |-> MapSet(collection, identifier, action), threw |-> NoError]

ActionManager_remove(collection, type, identifier) ==
  [collection |-> MapDelete(collection, ActionKey(type, identifier)), threw |-> NoError]

ActionManager_get(collection, type, identifier) ==
  MapGet(collection, ActionKey(type, identifier))

ActionManager_has(collection, type, identifier) ==
  ActionKey(type, identifier) \in DOMAIN collection

ActionManager_update(collection, type, identifier, action) ==
  LET key == ActionKey(type, identifier) IN
  IF key \notin DOMAIN collection
  THEN [collection |-> collection, threw |-> JsError("does not exist")]
  ELSE [collection |-> MapSet(collection, key, action), threw |-> NoError]

---------------------------------------------------------------------------
(* EventManager *)

EventManager_register_pertype(collection, event, force) ==
  IF /\ event.identifier \in DOMAIN collection
     /\ collection[event.identifier].type = event.type
     /\ ~force
  THEN [collection |-> collection,
        threw |-> CustomError("EVENT_IDENTIFIER_ALREADY_EXISTS")]
  ELSE [collection |-> MapSet(collection, event.identifier, event), threw |-> NoError]

EventManager_register_noforce(collection, event, force) ==
  IF event.identifier \in DOMAIN collection
  THEN [collection |-> collection,
        threw |-> CustomError("EVENT_IDENTIFIER_ALREADY_EXISTS")]
  ELSE [collection |-> MapSet(collection, event.identifier, event), threw |-> NoError]

EventManager_register_overwrite(collection, event, force) ==
  [collection |-> MapSet(collection, event.identifier, event), threw |-> NoError]

EventManager_register(collection, event, force) ==
  IF event.identifier \in DOMAIN collection /\ ~force
  THEN [collection |-> collection,
        threw |-> CustomError("EVENT_IDENTIFIER_ALREADY_EXISTS")]
  ELSE [collection |-> MapSet(collection, event.identifier, event), threw |-> NoError]

EventManager_remove_clear(collection, identifier) ==
  [collection |-> IF identifier \in DOMAIN collection THEN EmptyMap ELSE collection,
   threw |-> NoError]

EventManager_remove(collection, identifier) ==
  [collection |-> MapDelete(collection, identifier), threw |-> NoError]

EventManager_get(collection, identifier) == MapGet(collection, identifier)

EventManager_has_always(collection, identifier) == TRUE

EventManager_has(collection, identifier) == identifier \in DOMAIN collection

EventManager_update(collection, identifier, event) ==
  IF identifier \notin DOMAIN collection
  THEN [collection |-> collection, threw |-> CustomError("EVENT_NOT_FOUND")]
  ELSE [collection |-> MapSet(collection, identifier, event), threw |-> NoError]

---------------------------------------------------------------------------
(* The `all` getters: this.collection.clone() allocates a new Collection     *)
(* holding the same entries and returns a reference to it.                  *)

\* Collection.prototype.clone on the object `src` of heap h
Clone(h, src) == [ref |-> "snapshot", heap |-> [h EXCEPT !["snapshot"] = h[src]]]

ActionManager_all(h) == Clone(h, "actions")

EventManager_all_noclone(h) == [ref |-> "events", heap |-> h]

EventManager_all(h) == Clone(h, "events")

---------------------------------------------------------------------------
(* Handler records *)

\* callback: 0 stands for "no callback" (undefined); 1..NumCallbacks are functions

\* Action<ActionType> records the registry operations are driven with.
\* `enabled` is not a field of the Action typing: it reads undefined.
RegActionTypes == {"ChatInput", "Button"}

RegActionIds == {"a"}

RegActions ==
  [type : RegActionTypes, identifier : RegActionIds, disabled : {FALSE},
   callback : 1..NumCallbacks, enabled : {"undefined"}]

\* Event<EventType> records the registry operations are driven with
RegEventTypes == {"ready", "interactionCreate"}

RegEventIds == {"a", "b"}

RegEvents ==
  [type : RegEventTypes, identifier : RegEventIds, disabled : {FALSE}, callback : {1}]

---------------------------------------------------------------------------
(* State *)

VARIABLES
  heap,       \* the Collection objects: actions.collection, events.collection,
              \* and the object a caller got from `all`
  snapRef,    \* the reference the last `all` returned ("null" before)
  snapOf,     \* which manager's `all` returned it
  last,       \* the last manager call: its arguments and what it threw
  fsRoot,     \* the directory tree loadFolder is called on
  mgr,        \* the manager whose loadFolder is called
  optRecursive,  \* loadFolder's arguments recursive and force
  optForce,
  pc,         \* where the loadFolder call is
  stack,      \* the loadFolder activations, innermost first
  inflight,   \* paths whose load() has started and not settled
  attempts,   \* history: the load() calls made, in order
  result,     \* what the top-level loadFolder returned
  thrown,     \* what the top-level loadFolder threw
  dispatches, \* the runs of the interaction handler's callback, by run
  listeners,  \* the client's listeners, in the order client.on added them
  commands,   \* client.application.commands: the set calls the last run of
              \* register_global_commands made, and the application's commands
  logs,       \* a Logger, the context objects, and the error it last built
  boot        \* the start routine: where it is and how the process ended

regVars == <<heap, snapRef, snapOf, last>>

loadVars == <<fsRoot, mgr, optRecursive, optForce, pc, stack, inflight, attempts, result, thrown>>

dispVars == <<dispatches>>

extVars == <<listeners, commands, logs, boot>>

vars == <<heap, snapRef, snapOf, last, fsRoot, mgr, optRecursive, optForce, pc, stack,
          inflight, attempts, result, thrown, dispatches, listeners, commands, logs, boot>>

\* export const actions = new ActionManager(); its private collection
actions == heap.actions

\* export const events = new EventManager(); its private collection
events == heap.events

NoCall ==
  [op |-> "none", reg |-> "none", type |-> "", identifier |-> "", rec |-> NULL,
   force |-> FALSE, existed |-> FALSE, err |-> NoError]

Call(op, reg, type, identifier, rec, f, existed, err) ==
  [op |-> op, reg |-> reg, type |-> type, identifier |-> identifier, rec |-> rec,
   force |-> f, existed |-> existed, err |-> err]

\* both managers freshly constructed, no snapshot taken
RegInit ==
  /\ heap = [actions |-> EmptyMap, events |-> EmptyMap, snapshot |-> EmptyMap]
  /\ snapRef = "null"
  /\ snapOf = "none"
  /\ last = NoCall

\* no loadFolder call
LoadIdle ==
  /\ fsRoot = NULL
  /\ mgr = "none"
  /\ optRecursive = FALSE
  /\ optForce = FALSE
  /\ pc = "idle"
  /\ stack = <<>>
  /\ inflight = {}
  /\ attempts = <<>>
  /\ result = <<>>
  /\ thrown = NoError

\* a run of the handler that has not started
NoDispatch ==
  [pc |-> "idle", interaction |-> NULL, action |-> NULL, gets |-> <<>>, calls |-> <<>>,
   error |-> NoError, content |-> "undefined", replies |-> <<>>, replied |-> FALSE,
   rejected |-> NoError]

\* the runs of the handler
DispatchIds == {"d1"}

\* no interaction received yet
DispIdle == dispatches = [d \in DispatchIds |-> NoDispatch]

\* the context of a logger built with no argument
NoContext == [k \in {} |-> 0]

\* no setContext call made last
NoSet == [called |-> FALSE, context |-> NoContext]

\* a logger as `new Logger()` leaves it: its context is the object at "c1"; set
\* is the argument of the setContext call when the last call was one
NoLogs ==
  [heap |-> [c1 |-> NoContext, c2 |-> NoContext], logger |-> "c1", error |-> "none",
   code |-> "none", built |-> NoContext, set |-> NoSet]

\* the start routine not yet called; exit is the status the process exited
\* with, 0 while it has not
NoBoot ==
  [pc |-> "idle", actionsRoot |-> NULL, eventsRoot |-> NULL, listens |-> <<>>,
   failed |-> {}, count |-> 0, login |-> "none", error |-> NoError, exit |-> 0]

\* a client with no listener and no command published, a fresh logger, and
\* the process before start()
ExtIdle ==
  /\ listeners = <<>>
  /\ commands = [sent |-> <<>>, remote |-> {}]
  /\ logs = NoLogs
  /\ boot = NoBoot

---------------------------------------------------------------------------
(* Registry operations as steps *)

ActionRegister(action, f) ==
  LET r == ActionManager_register(actions, action, f) IN
  /\ heap' = [heap EXCEPT !.actions = r.collection]
  /\ last' = Call("register", "action", action.type, action.identifier, action, f,
                  ActionManager_has(actions, action.type, action.identifier), r.threw)
  /\ UNCHANGED <<snapRef, snapOf>>
  /\ UNCHANGED loadVars
  /\ UNCHANGED dispVars
  /\ UNCHANGED extVars

ActionRemove(type, identifier) ==
  LET r == ActionManager_remove(actions, type, identifier) IN
  /\ heap' = [heap EXCEPT !.actions = r.collection]
  /\ last' = Call("remove", "action", type, identifier, NULL, FALSE,
                  ActionManager_has(actions, type, identifier), r.threw)
  /\ UNCHANGED <<snapRef, snapOf>>
  /\ UNCHANGED loadVars
  /\ UNCHANGED dispVars
  /\ UNCHANGED extVars

ActionUpdate(type, identifier, action) ==
  LET r == ActionManager_update(actions, type, identifier, action) IN
  /\ heap' = [heap EXCEPT !.actions = r.collection]
  /\ last' = Call("update", "action", type, identifier, action, FALSE,
                  ActionManager_has(actions, type, identifier), r.threw)
  /\ UNCHANGED <<snapRef, snapOf>>
  /\ UNCHANGED loadVars
  /\ UNCHANGED dispVars
  /\ UNCHANGED extVars

EventRegister(event, f) ==
  LET r == EventManager_register(events, event, f) IN
  /\ heap' = [heap EXCEPT !.events = r.collection]
  /\ last' = Call("register", "event", event.type, event.identifier, event, f,
                  EventManager_has(events, event.identifier), r.threw)
  /\ UNCHANGED <<snapRef, snapOf>>
  /\ UNCHANGED loadVars
  /\ UNCHANGED dispVars
  /\ UNCHANGED extVars

EventRemove(identifier) ==
  LET r == EventManager_remove(events, identifier) IN
  /\ heap' = [heap EXCEPT !.events = r.collection]
  /\ last' = Call("remove", "event", "", identifier, NULL, FALSE,
                  EventManager_has(events, identifier), r.threw)
  /\ UNCHANGED <<snapRef, snapOf>>
  /\ UNCHANGED loadVars
  /\ UNCHANGED dispVars
  /\ UNCHANGED extVars

EventUpdate(identifier, event) ==
  LET r == EventManager_update(events, identifier, event) IN
  /\ heap' = [heap EXCEPT !.events = r.collection]
  /\ last' = Call("update", "event", "", identifier, event, FALSE,
                  EventManager_has(events, identifier), r.threw)
  /\ UNCHANGED <<snapRef, snapOf>>
  /\ UNCHANGED loadVars
  /\ UNCHANGED dispVars
  /\ UNCHANGED extVars

Init ==
  /\ RegInit
  /\ LoadIdle
  /\ DispIdle
  /\ ExtIdle

Next ==
  \/ \E a \in RegActions, f \in BOOLEAN : ActionRegister(a, f)
  \/ \E t \in RegActionTypes, i \in RegActionIds : ActionRemove(t, i)
  \/ \E t \in RegActionTypes, i \in RegActionIds, a \in RegActions : ActionUpdate(t, i, a)
  \/ \E e \in RegEvents, f \in BOOLEAN : EventRegister(e, f)
  \/ \E i \in RegEventIds : EventRemove(i)
  \/ \E i \in RegEventIds, e \in RegEvents : EventUpdate(i, e)

Spec == Init /\ [][Next]_vars

---------------------------------------------------------------------------
(* A caller holding the Collection that `all` returned *)

ActionAll ==
  LET r == ActionManager_all(heap) IN
  /\ heap' = r.heap
  /\ snapRef' = r.ref
  /\ snapOf' = "action"
  /\ last' = Call("all", "action", "", "", NULL, FALSE, FALSE, NoError)
  /\ UNCHANGED loadVars
  /\ UNCHANGED dispVars
  /\ UNCHANGED extVars

EventAll ==
  LET r == EventManager_all(heap) IN
  /\ heap' = r.heap
  /\ snapRef' = r.ref
  /\ snapOf' = "event"
  /\ last' = Call("all", "event", "", "", NULL, FALSE, FALSE, NoError)
  /\ UNCHANGED loadVars
  /\ UNCHANGED dispVars
  /\ UNCHANGED extVars

\* snapshot.set(key, value) by the caller
SnapshotSet(key, value) ==
  /\ snapRef # "null"
  /\ heap' = [heap EXCEPT ![snapRef] = MapSet(@, key, value)]
  /\ last' = Call("snapshot.set", snapOf, "", key, value, FALSE,
                  key \in DOMAIN heap[snapRef], NoError)
  /\ UNCHANGED <<snapRef, snapOf>>
  /\ UNCHANGED loadVars
  /\ UNCHANGED dispVars
  /\ UNCHANGED extVars

\* snapshot.delete(key) by the caller
SnapshotDelete(key) ==
  /\ snapRef # "null"
  /\ heap' = [heap EXCEPT ![snapRef] = MapDelete(@, key)]
  /\ last' = Call("snapshot.delete", snapOf, "", key, NULL, FALSE,
                  key \in DOMAIN heap[snapRef], NoError)
  /\ UNCHANGED <<snapRef, snapOf>>
  /\ UNCHANGED loadVars
  /\ UNCHANGED dispVars
  /\ UNCHANGED extVars

\* the records and keys the snapshot runs are driven with
SnapActions == {a \in RegActions : a.callback = 1}

SnapEvents == {e \in RegEvents : e.type = "ready"}

SnapKeys ==
  IF snapOf = "action"
  THEN {ActionKey(a.type, a.identifier) : a \in SnapActions}
  ELSE {e.identifier : e \in SnapEvents}

SnapValues == IF snapOf = "action" THEN SnapActions ELSE SnapEvents

NextSnap ==
  \/ ActionAll
  \/ EventAll
  \/ \E k \in SnapKeys, v \in SnapValues : SnapshotSet(k, v)
  \/ \E k \in SnapKeys : SnapshotDelete(k)
  \/ \E a \in SnapActions : ActionRegister(a, TRUE)
  \/ \E a \in SnapActions : ActionRemove(a.type, a.identifier)
  \/ \E a \in SnapActions, b \in SnapActions : ActionUpdate(a.type, a.identifier, b)
  \/ \E e \in SnapEvents : EventRegister(e, TRUE)
  \/ \E e \in SnapEvents : EventRemove(e.identifier)
  \/ \E e \in SnapEvents, d \in SnapEvents : EventUpdate(e.identifier, d)

SpecSnap == Init /\ [][NextSnap]_vars

---------------------------------------------------------------------------
(* The composite key as a function: every category, identifiers that       *)
(* themselves look like prefixes, at most MaxKeyEntries entries.           *)

MaxKeyEntries == 2

KeyIdentifiers == {"a", "menu-a", "select-menu-a"}

KeyActions ==
  [type : ActionType, identifier : KeyIdentifiers, disabled : {FALSE},
   callback : {1}, enabled : {"undefined"}]

NextKey ==
  \E a \in KeyActions :
    /\ Cardinality(DOMAIN actions) < MaxKeyEntries
    /\ ActionRegister(a, FALSE)

SpecKey == Init /\ [][NextKey]_vars

---------------------------------------------------------------------------
(* Lookups: get and has of both managers                                    *)
(* For a get, last.rec is what was returned; for a has, last.existed is.    *)

ActionGet(type, identifier) ==
  /\ last' = Call("get", "action", type, identifier,
                  ActionManager_get(actions, type, identifier), FALSE,
                  ActionManager_has(actions, type, identifier), NoError)
  /\ UNCHANGED <<heap, snapRef, snapOf>>
  /\ UNCHANGED loadVars
  /\ UNCHANGED dispVars
  /\ UNCHANGED extVars

ActionHas(type, identifier) ==
  /\ last' = Call("has", "action", type, identifier, NULL, FALSE,
                  ActionManager_has(actions, type, identifier), NoError)
  /\ UNCHANGED <<heap, snapRef, snapOf>>
  /\ UNCHANGED loadVars
  /\ UNCHANGED dispVars
  /\ UNCHANGED extVars

EventGet(identifier) ==
  /\ last' = Call("get", "event", "", identifier, EventManager_get(events, identifier),
                  FALSE, EventManager_has(events, identifier), NoError)
  /\ UNCHANGED <<heap, snapRef, snapOf>>
  /\ UNCHANGED loadVars
  /\ UNCHANGED dispVars
  /\ UNCHANGED extVars

EventHas(identifier) ==
  /\ last' = Call("has", "event", "", identifier, NULL, FALSE,
                  EventManager_has(events, identifier), NoError)
  /\ UNCHANGED <<heap, snapRef, snapOf>>
  /\ UNCHANGED loadVars
  /\ UNCHANGED dispVars
  /\ UNCHANGED extVars

\* the categories lookups and registrations are driven with: two members of
\* ActionType and two values that are none of its members
LookupTypes == {"ChatInput", "Button", "PrimaryEntryPoint", "undefined"}

LookupIds == {"a", "unknown-a"}

LookupActions ==
  [type : LookupTypes, identifier : LookupIds, disabled : {FALSE}, callback : {1},
   enabled : {"undefined"}]

LookupEvents ==
  [type : {"ready"}, identifier : {"a"}, disabled : {FALSE}, callback : {1}]

NextLookup ==
  \/ \E a \in LookupActions, f \in BOOLEAN : ActionRegister(a, f)
  \/ \E a \in LookupActions : ActionRemove(a.type, a.identifier)
  \/ \E e \in LookupEvents : EventRegister(e, FALSE)
  \/ \E e \in LookupEvents : EventRemove(e.identifier)
  \/ \E t \in LookupTypes, i \in LookupIds : ActionGet(t, i)
  \/ \E t \in LookupTypes, i \in LookupIds : ActionHas(t, i)
  \/ \E i \in {"a", "b"} : EventGet(i)
  \/ \E i \in {"a", "b"} : EventHas(i)

SpecLookup == Init /\ [][NextLookup]_vars

---------------------------------------------------------------------------
(* The file system a folder load sees                                      *)
(* An entry is a directory with its entries in readdir order, a regular    *)
(* file with its extension and what importing it yields, or something      *)
(* that is neither (a socket, a FIFO).  A path is the sequence of entry     *)
(* positions from the root.                                                *)

Dir(entries) ==
  [kind |-> "dir", ext |-> "", throws |-> FALSE, default |-> NULL, entries |-> entries]

File(ext, throws, default) ==
  [kind |-> "file", ext |-> ext, throws |-> throws, default |-> default, entries |-> <<>>]

Other == [kind |-> "other", ext |-> "", throws |-> FALSE, default |-> NULL, entries |-> <<>>]

Absent == [kind |-> "absent", ext |-> "", throws |-> FALSE, default |-> NULL, entries |-> <<>>]

\* the default export of a handler file of manager m: identifier id, disabled flag d
Handler(m, id, d) ==
  IF m = "action"
  THEN [type |-> "ChatInput", identifier |-> id, disabled |-> d, callback |-> 1,
        enabled |-> "undefined"]
  ELSE [type |-> "ready", identifier |-> id, disabled |-> d, callback |-> 1]

\* the regular files a tree may hold: two handler files, a module without a
\* default export, a handler in a .json file, a disabled handler, a module
\* whose import throws, a second handler with the identifier of the first
Files(m) ==
  { File(".ts", FALSE, Handler(m, "a", FALSE)),
    File(".js", FALSE, Handler(m, "b", FALSE)),
    File(".ts", FALSE, NULL),
    File(".json", FALSE, Handler(m, "c", FALSE)),
    File(".ts", FALSE, Handler(m, "d", TRUE)),
    File(".ts", TRUE, NULL),
    File(".js", FALSE, [Handler(m, "a", FALSE) EXCEPT !.callback = 2]) }

RECURSIVE TreesOfSize(_, _), ForestsOfSize(_, _)

\* the entries that are k nodes in all
TreesOfSize(k, m) ==
  IF k = 1
  THEN Files(m) \cup {Other, Dir(<<>>)}
  ELSE {Dir(f) : f \in ForestsOfSize(k - 1, m)}

\* the directory listings that are k nodes in all
ForestsOfSize(k, m) ==
  IF k = 0
  THEN {<<>>}
  ELSE UNION { {<<t>> \o f : t \in TreesOfSize(j, m), f \in ForestsOfSize(k - j, m)}
               : j \in 1..k }

\* what the path given to loadFolder may name
Roots(m) ==
  {Absent, File(".ts", FALSE, Handler(m, "a", FALSE))}
    \cup {Dir(f) : f \in UNION {ForestsOfSize(k, m) : k \in 0..MaxNodes}}

---------------------------------------------------------------------------
(* load(file, force), in its two halves: the synchronous checks up to the  *)
(* dynamic import, and what runs once the import has settled.              *)

\* a dynamic import that rejects (a syntax error, a throwing module body)
ImportError == JsError("import failed")

EventManager_load_sync(file) ==
  IF file.kind = "absent" THEN CustomError("FILE_NOT_FOUND")
  ELSE IF file.kind # "file" THEN CustomError("INVALID_FILE_TYPE")
  ELSE IF file.ext # ".js" /\ file.ext # ".ts" THEN CustomError("INVALID_FILE_TYPE")
  ELSE NoError

EventManager_load_import_late(collection, file, force) ==
  IF file.throws THEN [collection |-> collection, threw |-> ImportError]
  ELSE IF file.default = NULL
  THEN [collection |-> collection, threw |-> CustomError("NO_DEFAULT_EXPORT")]
  ELSE LET r == EventManager_register(collection, file.default, force) IN
       IF r.threw # NoError THEN r
       ELSE IF file.default.disabled
       THEN [collection |-> r.collection, threw |-> CustomError("EVENT_DISABLED")]
       ELSE r

EventManager_load_import_keep(collection, file, force) ==
  IF file.throws THEN [collection |-> collection, threw |-> ImportError]
  ELSE IF file.default = NULL
  THEN [collection |-> collection, threw |-> CustomError("NO_DEFAULT_EXPORT")]
  ELSE IF file.default.disabled
  THEN [collection |-> MapSet(collection, file.default.identifier, file.default),
        threw |-> CustomError("EVENT_DISABLED")]
  ELSE EventManager_register(collection, file.default, force)

EventManager_load_import(collection, file, force) ==
  IF file.throws THEN [collection |-> collection, threw |-> ImportError]
  ELSE IF file.default = NULL
  THEN [collection |-> collection, threw |-> CustomError("NO_DEFAULT_EXPORT")]
  ELSE IF file.default.disabled
  THEN [collection |-> collection, threw |-> CustomError("EVENT_DISABLED")]
  ELSE EventManager_register(collection, file.default, force)

ActionManager_load_sync(file) ==
  IF file.kind = "absent" THEN JsError("does not exist")
  ELSE IF file.kind # "file" THEN JsError("is not a file")
  ELSE IF file.ext # ".js" /\ file.ext # ".ts" THEN JsError("is not a valid action file")
  ELSE NoError

ActionManager_load_import(collection, file, force) ==
  IF file.throws THEN [collection |-> collection, threw |-> ImportError]
  ELSE IF file.default = NULL
  THEN [collection |-> collection, threw |-> JsError("does not export a default action")]
  ELSE IF file.default.enabled = "false"
  THEN [collection |-> collection, threw |-> JsError("is disabled")]
  ELSE ActionManager_register(collection, file.default, force)

---------------------------------------------------------------------------
(* loadFolder(folder, recursive, force)                                    *)

\* the checks on the folder itself
EventManager_loadFolder_check_lenient(folder) ==
  IF folder.kind = "absent" THEN CustomError("FOLDER_NOT_FOUND")
  ELSE NoError

EventManager_loadFolder_check(folder) ==
  IF folder.kind = "absent" THEN CustomError("FOLDER_NOT_FOUND")
  ELSE IF folder.kind # "dir" THEN CustomError("INVALID_FOLDER_TYPE")
  ELSE NoError

ActionManager_loadFolder_check(folder) ==
  IF folder.kind = "absent" THEN JsError("does not exist")
  ELSE IF folder.kind # "dir" THEN JsError("is not a directory")
  ELSE NoError

\* a rejected load(): what the loop does with it
EventManager_loadFolder_catch_rethrow(failedFiles, error, filePath) ==
  [failedFiles |-> failedFiles, threw |-> error]

EventManager_loadFolder_catch(failedFiles, error, filePath) ==
  [failedFiles |-> Append(failedFiles, [error |-> error, path |-> filePath]),
   threw |-> NoError]

ActionManager_loadFolder_catch(failedFiles, error, filePath) ==
  [failedFiles |-> Append(failedFiles, [message |-> error.message, path |-> filePath]),
   threw |-> NoError]

\* a subfolder's loadFolder has returned subFailedFiles
EventManager_loadFolder_sub(failedFiles, subFailedFiles) == failedFiles \o subFailedFiles

ActionManager_loadFolder_sub(failedFiles, subFailedFiles) == failedFiles

\* one activation of loadFolder: its folder, the listing, the loop position
Frame(path, files) == [path |-> path, files |-> files, i |-> 1, failedFiles |-> <<>>]

Top == stack[1]

\* the entry the loop of the innermost activation is at, and its path
Entry == Top.files[Top.i]

FilePath == Append(Top.path, Top.i)

\* the loop moves to the next entry
Advance(failedFiles) ==
  <<[Top EXCEPT !.i = @ + 1, !.failedFiles = failedFiles]>> \o Tail(stack)

\* the top-level call: loadFolder(root, recursive, force)
LoadFolderCall ==
  /\ pc = "idle"
  /\ LET chk == IF mgr = "event"
                THEN EventManager_loadFolder_check(fsRoot)
                ELSE ActionManager_loadFolder_check(fsRoot) IN
     IF chk # NoError
     THEN /\ pc' = "threw"
          /\ thrown' = chk
          /\ UNCHANGED stack
     ELSE /\ pc' = "scan"
          /\ stack' = <<Frame(<<>>, fsRoot.entries)>>
          /\ UNCHANGED thrown
  /\ UNCHANGED <<fsRoot, mgr, optRecursive, optForce, inflight, attempts, result>>
  /\ UNCHANGED regVars
  /\ UNCHANGED dispVars
  /\ UNCHANGED extVars

\* the entry is a directory and recursive is set: await this.loadFolder(filePath, ...)
EnterSubfolder ==
  /\ pc = "scan"
  /\ Top.i <= Len(Top.files)
  /\ Entry.kind = "dir" /\ optRecursive
  /\ stack' = <<Frame(FilePath, Entry.entries)>> \o stack
  /\ UNCHANGED <<fsRoot, mgr, optRecursive, optForce, pc, inflight, attempts, result, thrown>>
  /\ UNCHANGED regVars
  /\ UNCHANGED dispVars
  /\ UNCHANGED extVars

SkipEntry_record ==
  /\ pc = "scan"
  /\ Top.i <= Len(Top.files)
  /\ ~(Entry.kind = "dir" /\ optRecursive)
  /\ Entry.kind # "file"
  /\ stack' = Advance(Append(Top.failedFiles,
                              [error |-> JsError("not a file"), path |-> FilePath]))
  /\ UNCHANGED <<fsRoot, mgr, optRecursive, optForce, pc, inflight, attempts, result, thrown>>
  /\ UNCHANGED regVars
  /\ UNCHANGED dispVars
  /\ UNCHANGED extVars

\* the entry is neither: no branch of the loop body applies
SkipEntry ==
  /\ pc = "scan"
  /\ Top.i <= Len(Top.files)
  /\ ~(Entry.kind = "dir" /\ optRecursive)
  /\ Entry.kind # "file"
  /\ stack' = Advance(Top.failedFiles)
  /\ UNCHANGED <<fsRoot, mgr, optRecursive, optForce, pc, inflight, attempts, result, thrown>>
  /\ UNCHANGED regVars
  /\ UNCHANGED dispVars
  /\ UNCHANGED extVars

\* load(filePath, force) has settled with r: the registry it leaves and what it threw
Settle(r) ==
  /\ attempts' = Append(attempts, [path |-> FilePath, err |-> r.threw])
  /\ heap' = IF mgr = "event"
             THEN [heap EXCEPT !.events = r.collection]
             ELSE [heap EXCEPT !.actions = r.collection]
  /\ inflight' = {}
  /\ LET c == IF r.threw = NoError
              THEN [failedFiles |-> Top.failedFiles, threw |-> NoError]
              ELSE IF mgr = "event"
              THEN EventManager_loadFolder_catch(Top.failedFiles, r.threw, FilePath)
              ELSE ActionManager_loadFolder_catch(Top.failedFiles, r.threw, FilePath) IN
     IF c.threw = NoError
     THEN /\ stack' = Advance(c.failedFiles)
          /\ pc' = "scan"
          /\ UNCHANGED thrown
     ELSE /\ stack' = <<>>
          /\ pc' = "threw"
          /\ thrown' = c.threw
  /\ UNCHANGED <<fsRoot, mgr, optRecursive, optForce, result>>
  /\ UNCHANGED <<snapRef, snapOf, last>>
  /\ UNCHANGED dispVars
  /\ UNCHANGED extVars

LoadFile_unawaited ==
  /\ pc = "scan"
  /\ Top.i <= Len(Top.files)
  /\ ~(Entry.kind = "dir" /\ optRecursive)
  /\ Entry.kind = "file"
  /\ inflight' = inflight \cup {FilePath}
  /\ stack' = Advance(Top.failedFiles)
  /\ UNCHANGED <<fsRoot, mgr, optRecursive, optForce, pc, attempts, result, thrown>>
  /\ UNCHANGED regVars
  /\ UNCHANGED dispVars
  /\ UNCHANGED extVars

\* the entry is a regular file: load(filePath, force) runs up to its import
LoadFile ==
  /\ pc = "scan"
  /\ Top.i <= Len(Top.files)
  /\ ~(Entry.kind = "dir" /\ optRecursive)
  /\ Entry.kind = "file"
  /\ LET chk == IF mgr = "event"
                THEN EventManager_load_sync(Entry)
                ELSE ActionManager_load_sync(Entry) IN
     IF chk # NoError
     THEN Settle([collection |-> IF mgr = "event" THEN events ELSE actions, threw |-> chk])
     ELSE /\ inflight' = {FilePath}
          /\ pc' = "import"
          /\ UNCHANGED <<fsRoot, mgr, optRecursive, optForce, stack, attempts, result, thrown>>
          /\ UNCHANGED regVars
          /\ UNCHANGED dispVars
          /\ UNCHANGED extVars

\* the import has settled: the rest of load(), then the loop goes on
ImportSettled ==
  /\ pc = "import"
  /\ Settle(IF mgr = "event"
            THEN EventManager_load_import(events, Entry, optForce)
            ELSE ActionManager_load_import(actions, Entry, optForce))

\* the loop is over: return failedFiles, to the awaiting activation if there is one
ReturnFolder ==
  /\ pc = "scan"
  /\ Top.i > Len(Top.files)
  /\ IF Len(stack) > 1
     THEN /\ stack' =
               <<[stack[2] EXCEPT
                    !.i = @ + 1,
                    !.failedFiles =
                       IF mgr = "event"
                       THEN EventManager_loadFolder_sub(@, Top.failedFiles)
                       ELSE ActionManager_loadFolder_sub(@, Top.failedFiles)]>>
                 \o Tail(Tail(stack))
          /\ UNCHANGED <<pc, result>>
     ELSE /\ stack' = <<>>
          /\ pc' = "returned"
          /\ result' = Top.failedFiles
  /\ UNCHANGED <<fsRoot, mgr, optRecursive, optForce, inflight, attempts, thrown>>
  /\ UNCHANGED regVars
  /\ UNCHANGED dispVars
  /\ UNCHANGED extVars

\* a loadFolder call about to be made on an empty registry
InitLoad ==
  /\ RegInit
  /\ mgr \in {"action", "event"}
  /\ fsRoot \in Roots(mgr)
  /\ optRecursive \in BOOLEAN
  /\ optForce \in BOOLEAN
  /\ pc = "idle"
  /\ stack = <<>>
  /\ inflight = {}
  /\ attempts = <<>>
  /\ result = <<>>
  /\ thrown = NoError
  /\ DispIdle
  /\ ExtIdle

NextLoad ==
  \/ LoadFolderCall
  \/ EnterSubfolder
  \/ SkipEntry
  \/ LoadFile
  \/ ImportSettled
  \/ ReturnFolder

SpecLoad == InitLoad /\ [][NextLoad]_vars

\* the same, the event loop running every continuation that is ready and every
\* import settling
SpecLoadFair == SpecLoad /\ WF_vars(NextLoad)

---------------------------------------------------------------------------
(* load(file, force) called directly, on whatever the path names            *)

\* the paths a direct load is given: nothing, a socket, a directory, the files
\* of a tree, and files that fail more than one check
LoadArgs(m) ==
  {Absent, Other, Dir(<<>>)} \cup Files(m)
    \cup { File(".json", FALSE, NULL),
           File(".json", TRUE, NULL),
           File(".ts", FALSE, Handler(m, "a", TRUE)) }

\* load(file, force) runs up to its dynamic import
LoadCall(m, file, f) ==
  /\ pc \in {"idle", "returned", "threw"}
  /\ mgr' = m
  /\ fsRoot' = file
  /\ optForce' = f
  /\ LET chk == IF m = "event"
                THEN EventManager_load_sync(file)
                ELSE ActionManager_load_sync(file) IN
     IF chk # NoError
     THEN /\ pc' = "threw"
          /\ thrown' = chk
          /\ last' = Call("load", m, "", "", file, f, FALSE, chk)
          /\ UNCHANGED inflight
     ELSE /\ pc' = "load"
          /\ thrown' = NoError
          /\ inflight' = {<<>>}
          /\ UNCHANGED last
  /\ UNCHANGED <<heap, snapRef, snapOf, optRecursive, stack, attempts, result>>
  /\ UNCHANGED dispVars
  /\ UNCHANGED extVars

\* the import has settled: the rest of load()
LoadSettled ==
  /\ pc = "load"
  /\ LET r == IF mgr = "event"
              THEN EventManager_load_import(events, fsRoot, optForce)
              ELSE ActionManager_load_import(actions, fsRoot, optForce) IN
     /\ heap' = IF mgr = "event"
                THEN [heap EXCEPT !.events = r.collection]
                ELSE [heap EXCEPT !.actions = r.collection]
     /\ pc' = IF r.threw = NoError THEN "returned" ELSE "threw"
     /\ thrown' = r.threw
     /\ last' = Call("load", mgr, "", "", fsRoot, optForce,
                     /\ fsRoot.default # NULL
                     /\ IF mgr = "event"
                        THEN EventManager_has(events, fsRoot.default.identifier)
                        ELSE ActionManager_has(actions, fsRoot.default.type,
                                               fsRoot.default.identifier),
                     r.threw)
  /\ inflight' = {}
  /\ UNCHANGED <<snapRef, snapOf, fsRoot, mgr, optRecursive, optForce, stack, attempts, result>>
  /\ UNCHANGED dispVars
  /\ UNCHANGED extVars

NextLoadFile ==
  \/ \E m \in {"action", "event"}, f \in BOOLEAN : \E file \in LoadArgs(m) : LoadCall(m, file, f)
  \/ LoadSettled

SpecLoadFile == Init /\ [][NextLoadFile]_vars

---------------------------------------------------------------------------
(* The interaction handler: the callback of the event interaction_auto_handler *)

\* the shapes of interaction the type guards tell apart; a primary entry point
\* command is an interaction none of the eleven guards accepts
InteractionKinds ==
  { "ChatInput", "MessageContext", "UserContext", "Button", "StringSelectMenu",
    "UserSelectMenu", "RoleSelectMenu", "MentionableSelectMenu", "ChannelSelectMenu",
    "ModalSubmit", "Autocomplete", "PrimaryEntryPoint" }

\* the shapes that carry a commandName; the others carry a customId
CommandKinds == {"ChatInput", "MessageContext", "UserContext", "Autocomplete", "PrimaryEntryPoint"}

\* an interaction: its shape, its commandName or customId, its locale
Interaction(kind, id, locale) ==
  [kind |-> kind,
   commandName |-> IF kind \in CommandKinds THEN id ELSE "undefined",
   customId |-> IF kind \in CommandKinds THEN "undefined" ELSE id,
   locale |-> locale]

getActionTypeFromInteraction_command(interaction) ==
  IF interaction.kind = "ChatInput" THEN "ChatInput"
  ELSE IF interaction.kind = "MessageContext" THEN "MessageContext"
  ELSE IF interaction.kind = "UserContext" THEN "UserContext"
  ELSE IF interaction.kind = "Button" THEN "Button"
  ELSE IF interaction.kind = "StringSelectMenu" THEN "StringSelectMenu"
  ELSE IF interaction.kind = "UserSelectMenu" THEN "UserSelectMenu"
  ELSE IF interaction.kind = "RoleSelectMenu" THEN "RoleSelectMenu"
  ELSE IF interaction.kind = "MentionableSelectMenu" THEN "MentionableSelectMenu"
  ELSE IF interaction.kind = "ChannelSelectMenu" THEN "ChannelSelectMenu"
  ELSE IF interaction.kind = "ModalSubmit" THEN "ModalSubmit"
  ELSE IF interaction.kind = "Autocomplete" THEN "ChatInput"
  ELSE "null"

getActionTypeFromInteraction(interaction) ==
  IF interaction.kind = "ChatInput" THEN "ChatInput"
  ELSE IF interaction.kind = "MessageContext" THEN "MessageContext"
  ELSE IF interaction.kind = "UserContext" THEN "UserContext"
  ELSE IF interaction.kind = "Button" THEN "Button"
  ELSE IF interaction.kind = "StringSelectMenu" THEN "StringSelectMenu"
  ELSE IF interaction.kind = "UserSelectMenu" THEN "UserSelectMenu"
  ELSE IF interaction.kind = "RoleSelectMenu" THEN "RoleSelectMenu"
  ELSE IF interaction.kind = "MentionableSelectMenu" THEN "MentionableSelectMenu"
  ELSE IF interaction.kind = "ChannelSelectMenu" THEN "ChannelSelectMenu"
  ELSE IF interaction.kind = "ModalSubmit" THEN "ModalSubmit"
  ELSE IF interaction.kind = "Autocomplete" THEN "Autocomplete"
  ELSE "null"

getIdentifierFromInteraction_custom(interaction) ==
  IF interaction.kind = "ChatInput" THEN interaction.commandName
  ELSE IF interaction.kind = "MessageContext" THEN interaction.commandName
  ELSE IF interaction.kind = "UserContext" THEN interaction.commandName
  ELSE IF interaction.kind = "Button" THEN interaction.customId
  ELSE IF interaction.kind = "StringSelectMenu" THEN interaction.customId
  ELSE IF interaction.kind = "UserSelectMenu" THEN interaction.customId
  ELSE IF interaction.kind = "RoleSelectMenu" THEN interaction.customId
  ELSE IF interaction.kind = "MentionableSelectMenu" THEN interaction.customId
  ELSE IF interaction.kind = "ChannelSelectMenu" THEN interaction.customId
  ELSE IF interaction.kind = "ModalSubmit" THEN interaction.customId
  ELSE IF interaction.kind = "Autocomplete" THEN interaction.customId
  ELSE "null"

getIdentifierFromInteraction(interaction) ==
  IF interaction.kind = "ChatInput" THEN interaction.commandName
  ELSE IF interaction.kind = "MessageContext" THEN interaction.commandName
  ELSE IF interaction.kind = "UserContext" THEN interaction.commandName
  ELSE IF interaction.kind = "Button" THEN interaction.customId
  ELSE IF interaction.kind = "StringSelectMenu" THEN interaction.customId
  ELSE IF interaction.kind = "UserSelectMenu" THEN interaction.customId
  ELSE IF interaction.kind = "RoleSelectMenu" THEN interaction.customId
  ELSE IF interaction.kind = "MentionableSelectMenu" THEN interaction.customId
  ELSE IF interaction.kind = "ChannelSelectMenu" THEN interaction.customId
  ELSE IF interaction.kind = "ModalSubmit" THEN interaction.customId
  ELSE IF interaction.kind = "Autocomplete" THEN interaction.commandName
  ELSE "null"

isRepliable_always(interaction) == TRUE

\* interaction.isRepliable(): every interaction but an autocomplete one
isRepliable(interaction) == interaction.kind # "Autocomplete"

\* the localized message table (texts without their accents); Locale.French is "fr"
messages ==
  [ UNKNOWN_ERROR |->
      [default |-> "An unknown error occurred.",
       fr |-> "Une erreur inconnue s'est produite."],
    ACTION_IDENTIFIER_ALREADY_EXISTS |->
      [default |-> "An action with this identifier already exists.",
       fr |-> "Une action avec cet identifiant existe deja."],
    ACTION_DISABLED |->
      [default |-> "This action is currently disabled.",
       fr |-> "Cette action est actuellement desactivee."],
    ACTION_NOT_FOUND |->
      [default |-> "The specified action was not found.",
       fr |-> "L'action specifiee est introuvable."],
    ACTION_WITHOUT_CALLBACK |->
      [default |-> "The action does not have a valid callback function.",
       fr |-> "L'action n'a pas de fonction de rappel valide."],
    EVENT_IDENTIFIER_ALREADY_EXISTS |->
      [default |-> "An event with this identifier already exists.",
       fr |-> "Un evenement avec cet identifiant existe deja."],
    EVENT_NOT_FOUND |->
      [default |-> "The specified event was not found.",
       fr |-> "L'evenement specifie est introuvable."],
    EVENT_DISABLED |->
      [default |-> "This event is currently disabled.",
       fr |-> "Cet evenement est actuellement desactive."],
    EVENT_WITHOUT_CALLBACK |->
      [default |-> "The event does not have a valid callback function.",
       fr |-> "L'evenement n'a pas de fonction de rappel valide."],
    INTERACTION_TYPE_NOT_SUPPORTED |->
      [default |-> "The interaction type is not supported.",
       fr |-> "Le type d'interaction n'est pas pris en charge."],
    FILE_NOT_FOUND |->
      [default |-> "The specified file was not found.",
       fr |-> "Le fichier specifie est introuvable."],
    INVALID_FILE_TYPE |->
      [default |-> "The file type is invalid.",
       fr |-> "Le type de fichier est invalide."],
    NO_DEFAULT_EXPORT |->
      [default |-> "The file does not export a default action.",
       fr |-> "Le fichier n'exporte pas une action par defaut."],
    FOLDER_NOT_FOUND |->
      [default |-> "The specified folder was not found.",
       fr |-> "Le dossier specifie est introuvable."],
    INVALID_FOLDER_TYPE |->
      [default |-> "The specified folder is not a valid directory.",
       fr |-> "Le dossier specifie n'est pas un repertoire valide."] ]

\* message[locale], undefined when the message has no text for the locale
Localized(message, locale) ==
  IF locale \in DOMAIN message THEN message[locale] ELSE "undefined"

\* a || b on message texts
OrElse(a, b) == IF a = "undefined" \/ a = "" THEN b ELSE a

ErrorMessage_default(error, locale) ==
  IF error.name = "CustomError"
  THEN OrElse(messages[error.code].default, messages.UNKNOWN_ERROR.default)
  ELSE messages.UNKNOWN_ERROR.default

ErrorMessage_unknownfirst(error, locale) ==
  IF error.name = "CustomError"
  THEN OrElse(Localized(messages[error.code], locale),
         OrElse(Localized(messages.UNKNOWN_ERROR, locale),
                messages.UNKNOWN_ERROR.default))
  ELSE OrElse(Localized(messages.UNKNOWN_ERROR, locale), messages.UNKNOWN_ERROR.default)

ErrorMessage_plaindefault(error, locale) ==
  IF error.name = "CustomError"
  THEN OrElse(Localized(messages[error.code], locale),
         OrElse(messages[error.code].default,
           OrElse(Localized(messages.UNKNOWN_ERROR, locale),
                  messages.UNKNOWN_ERROR.default)))
  ELSE messages.UNKNOWN_ERROR.default

\* the message the catch block picks for what was thrown
ErrorMessage(error, locale) ==
  IF error.name = "CustomError"
  THEN OrElse(Localized(messages[error.code], locale),
         OrElse(messages[error.code].default,
           OrElse(Localized(messages.UNKNOWN_ERROR, locale),
                  messages.UNKNOWN_ERROR.default)))
  ELSE OrElse(Localized(messages.UNKNOWN_ERROR, locale), messages.UNKNOWN_ERROR.default)

\* getCustomMessageContent: a text that is not a function is returned as it is
getCustomMessageContent(content, params) == content

\* !x on a string or null
Falsy(x) == x \in {"null", "undefined", ""}

\* the checks on what actions.get returned
interactionHandler_check_nodisabled(action) ==
  IF action = NULL THEN CustomError("ACTION_NOT_FOUND")
  ELSE IF action.callback = 0 THEN CustomError("ACTION_WITHOUT_CALLBACK")
  ELSE NoError

interactionHandler_check_callbackfirst(action) ==
  IF action = NULL THEN CustomError("ACTION_NOT_FOUND")
  ELSE IF action.callback = 0 THEN CustomError("ACTION_WITHOUT_CALLBACK")
  ELSE IF action.disabled THEN CustomError("ACTION_DISABLED")
  ELSE NoError

interactionHandler_check(action) ==
  IF action = NULL THEN CustomError("ACTION_NOT_FOUND")
  ELSE IF action.disabled THEN CustomError("ACTION_DISABLED")
  ELSE IF action.callback = 0 THEN CustomError("ACTION_WITHOUT_CALLBACK")
  ELSE NoError

\* the try block up to the call of the action's callback: the action resolved,
\* the lookups made in the registry, the callbacks called, and what was thrown
interactionHandler_try(collection, interaction) ==
  LET type == getActionTypeFromInteraction(interaction)
      identifier == getIdentifierFromInteraction(interaction)
      action == ActionManager_get(collection, type, identifier)
      lookup == <<[type |-> type, identifier |-> identifier]>> IN
  IF type = "null"
  THEN [action |-> NULL, gets |-> <<>>, calls |-> <<>>,
        threw |-> CustomError("INTERACTION_TYPE_NOT_SUPPORTED")]
  ELSE IF Falsy(identifier)
  THEN [action |-> NULL, gets |-> <<>>, calls |-> <<>>,
        threw |-> CustomError("ACTION_NOT_FOUND")]
  ELSE IF interactionHandler_check(action) # NoError
  THEN [action |-> action, gets |-> lookup, calls |-> <<>>,
        threw |-> interactionHandler_check(action)]
  ELSE [action |-> action, gets |-> lookup,
        calls |-> <<[callback |-> action.callback, interaction |-> interaction]>>,
        threw |-> NoError]

\* the catch block up to its await of getCustomMessageContent
interactionHandler_catch(run, error) ==
  [run EXCEPT !.pc = "message",
              !.error = error,
              !.content = getCustomMessageContent(
                            ErrorMessage(error, run.interaction.locale), run)]

Dispatch_evict(d, interaction) ==
  /\ dispatches[d].pc \in {"idle", "done", "rejected"}
  /\ LET t == interactionHandler_try(actions, interaction)
         run == [NoDispatch EXCEPT !.interaction = interaction, !.action = t.action,
                                   !.gets = t.gets, !.calls = t.calls] IN
     /\ dispatches' =
          [dispatches EXCEPT ![d] = IF t.threw = NoError
                                    THEN [run EXCEPT !.pc = "callback"]
                                    ELSE interactionHandler_catch(run, t.threw)]
     /\ heap' = IF t.threw = CustomError("ACTION_DISABLED")
                THEN [heap EXCEPT !.actions =
                        ActionManager_remove(actions, t.action.type,
                                             t.action.identifier).collection]
                ELSE heap
  /\ UNCHANGED <<snapRef, snapOf, last>>
  /\ UNCHANGED loadVars
  /\ UNCHANGED extVars

\* client.emit('interactionCreate', interaction): the handler runs up to its
\* first await
Dispatch(d, interaction) ==
  /\ dispatches[d].pc \in {"idle", "done", "rejected"}
  /\ LET t == interactionHandler_try(actions, interaction)
         run == [NoDispatch EXCEPT !.interaction = interaction, !.action = t.action,
                                   !.gets = t.gets, !.calls = t.calls] IN
     dispatches' =
       [dispatches EXCEPT ![d] = IF t.threw = NoError
                                 THEN [run EXCEPT !.pc = "callback"]
                                 ELSE interactionHandler_catch(run, t.threw)]
  /\ UNCHANGED regVars
  /\ UNCHANGED loadVars
  /\ UNCHANGED extVars

CallbackSettled_rerun(d, replied, threw) ==
  /\ dispatches[d].pc = "callback"
  /\ LET run == [dispatches[d] EXCEPT !.replied = replied]
         t == interactionHandler_try(actions, run.interaction) IN
     dispatches' =
       [dispatches EXCEPT ![d] = IF t.threw = NoError /\ t.action # run.action
                                 THEN [run EXCEPT !.action = t.action,
                                                  !.calls = @ \o t.calls]
                                 ELSE IF threw = NoError
                                 THEN [run EXCEPT !.pc = "done"]
                                 ELSE interactionHandler_catch(run, threw)]
  /\ UNCHANGED regVars
  /\ UNCHANGED loadVars
  /\ UNCHANGED extVars

\* the promise of action.callback(interaction) settles: the callback has replied
\* to the interaction or not, and has returned or thrown
CallbackSettled(d, replied, threw) ==
  /\ dispatches[d].pc = "callback"
  /\ LET run == [dispatches[d] EXCEPT !.replied = replied] IN
     dispatches' =
       [dispatches EXCEPT ![d] = IF threw = NoError
                                 THEN [run EXCEPT !.pc = "done"]
                                 ELSE interactionHandler_catch(run, threw)]
  /\ UNCHANGED regVars
  /\ UNCHANGED loadVars
  /\ UNCHANGED extVars

\* getCustomMessageContent has resolved: reply if the interaction is repliable
MessageResolved(d) ==
  /\ dispatches[d].pc = "message"
  /\ dispatches' =
       [dispatches EXCEPT ![d] =
          IF isRepliable(@.interaction)
          THEN [@ EXCEPT !.pc = "reply",
                         !.replies = Append(@, [content |-> dispatches[d].content,
                                                flags |-> {"Ephemeral"}])]
          ELSE [@ EXCEPT !.pc = "done"]]
  /\ UNCHANGED regVars
  /\ UNCHANGED loadVars
  /\ UNCHANGED extVars

\* interaction.reply settles: it rejects when the interaction was replied to
\* already, and may reject for the transport's own reasons
ReplySettled(d, ok) ==
  /\ dispatches[d].pc = "reply"
  /\ dispatches[d].replied => ~ok
  /\ dispatches' =
       [dispatches EXCEPT ![d] =
          IF ok
          THEN [@ EXCEPT !.pc = "done", !.replied = TRUE]
          ELSE [@ EXCEPT !.pc = "rejected", !.rejected = JsError("reply failed")]]
  /\ UNCHANGED regVars
  /\ UNCHANGED loadVars
  /\ UNCHANGED extVars

\* the actions, interactions and callback behaviours the handler is driven with
DispActions ==
  [type : {"ChatInput", "Autocomplete"}, identifier : {"a"}, disabled : BOOLEAN,
   callback : 0..NumCallbacks, enabled : {"undefined"}]

\* a command, a component, an autocomplete and an unsupported interaction, named
\* "a" or "", from a user whose locale has texts or has none
DispKinds == {"ChatInput", "Button", "Autocomplete", "PrimaryEntryPoint"}

DispInteractions ==
  {Interaction(k, i, l) : k \in DispKinds, i \in {"a", ""}, l \in {"fr", "en-US"}}

CallbackThrows ==
  {NoError, CustomError("EVENT_NOT_FOUND"), JsError("callback failed")}

NextDispatch ==
  \/ \E a \in DispActions : ActionRegister(a, TRUE)
  \/ \E a \in DispActions : ActionUpdate(a.type, a.identifier, a)
  \/ \E a \in DispActions : ActionRemove(a.type, a.identifier)
  \/ \E d \in DispatchIds, i \in DispInteractions : Dispatch(d, i)
  \/ \E d \in DispatchIds, r \in BOOLEAN, e \in CallbackThrows : CallbackSettled(d, r, e)
  \/ \E d \in DispatchIds : MessageResolved(d)
  \/ \E d \in DispatchIds, ok \in BOOLEAN : ReplySettled(d, ok)

SpecDispatch == Init /\ [][NextDispatch]_vars

\* message resolution alone: one command whose callback throws any error of the
\* taxonomy, or an error that is no CustomError, for a user of any locale
MessageLocales == {"fr", "en-US", "de"}

MessageThrows ==
  {NoError, JsError("callback failed")} \cup {CustomError(c) : c \in DOMAIN messages}

NextMessage ==
  \/ ActionRegister([type |-> "ChatInput", identifier |-> "a", disabled |-> FALSE,
                     callback |-> 1, enabled |-> "undefined"], TRUE)
  \/ \E d \in DispatchIds, l \in MessageLocales : Dispatch(d, Interaction("ChatInput", "a", l))
  \/ \E d \in DispatchIds, r \in BOOLEAN, e \in MessageThrows : CallbackSettled(d, r, e)
  \/ \E d \in DispatchIds : MessageResolved(d)
  \/ \E d \in DispatchIds, ok \in BOOLEAN : ReplySettled(d, ok)

SpecMessage == Init /\ [][NextMessage]_vars

\* classification alone: interactions of every shape, named "a" or "b", met by
\* a registry that holds a button and a modal
ClassifyActions ==
  [type : {"Button", "ModalSubmit"}, identifier : {"a"}, disabled : {FALSE},
   callback : {1}, enabled : {"undefined"}]

ClassifyInteractions ==
  {Interaction(k, i, "en-US") : k \in InteractionKinds, i \in {"a", "b"}}

NextClassify ==
  \/ \E a \in ClassifyActions : ActionRegister(a, TRUE)
  \/ \E d \in DispatchIds, i \in ClassifyInteractions : Dispatch(d, i)
  \/ \E d \in DispatchIds, r \in BOOLEAN, e \in {NoError, JsError("callback failed")} :
       CallbackSettled(d, r, e)
  \/ \E d \in DispatchIds : MessageResolved(d)
  \/ \E d \in DispatchIds, ok \in BOOLEAN : ReplySettled(d, ok)

SpecClassify == Init /\ [][NextClassify]_vars

\* several runs of the handler at once: two interactions for the command "a"
\* in flight while the command is registered, replaced and removed
ConcurrentIds == {"d1", "d2"}

ConcurrentActions ==
  [type : {"ChatInput"}, identifier : {"a"}, disabled : {FALSE},
   callback : 1..NumCallbacks, enabled : {"undefined"}]

ConcurrentInteractions == {Interaction("ChatInput", "a", "en-US")}

InitConcurrent ==
  /\ RegInit
  /\ LoadIdle
  /\ dispatches = [d \in ConcurrentIds |-> NoDispatch]
  /\ ExtIdle

NextConcurrent ==
  \/ \E a \in ConcurrentActions : ActionRegister(a, FALSE)
  \/ \E a \in ConcurrentActions : ActionUpdate(a.type, a.identifier, a)
  \/ \E a \in ConcurrentActions : ActionRemove(a.type, a.identifier)
  \/ \E d \in ConcurrentIds, i \in ConcurrentInteractions : Dispatch(d, i)
  \/ \E d \in ConcurrentIds, r \in BOOLEAN, e \in {NoError, JsError("callback failed")} :
       CallbackSettled(d, r, e)
  \/ \E d \in ConcurrentIds : MessageResolved(d)
  \/ \E d \in ConcurrentIds, ok \in BOOLEAN : ReplySettled(d, ok)

SpecConcurrent == InitConcurrent /\ [][NextConcurrent]_vars

---------------------------------------------------------------------------
(* Listening to events: EventManager.listen and EventManager.mute          *)

\* the most listeners the client is given
MaxListeners == 2

EventManager_listen_check_callbackfirst(event) ==
  IF event = NULL THEN CustomError("EVENT_NOT_FOUND")
  ELSE IF event.callback = 0 THEN CustomError("EVENT_WITHOUT_CALLBACK")
  ELSE IF event.disabled THEN CustomError("EVENT_DISABLED")
  ELSE NoError

\* the checks of listen on what collection.get returned
EventManager_listen_check(event) ==
  IF event = NULL THEN CustomError("EVENT_NOT_FOUND")
  ELSE IF event.disabled THEN CustomError("EVENT_DISABLED")
  ELSE IF event.callback = 0 THEN CustomError("EVENT_WITHOUT_CALLBACK")
  ELSE NoError

\* the checks of mute on what collection.get returned
EventManager_mute_check(event) ==
  IF event = NULL THEN CustomError("EVENT_NOT_FOUND")
  ELSE IF event.callback = 0 THEN CustomError("EVENT_WITHOUT_CALLBACK")
  ELSE NoError

\* client.on(type, callback): the listener is added at the end; `by` is the
\* identifier listen was called with, which the client does not see
client_on(ls, type, callback, by) ==
  Append(ls, [type |-> type, callback |-> callback, by |-> by])

\* client.off(type, callback): the most recently added instance of the listener
\* is removed, if there is one
client_off(ls, type, callback) ==
  LET hits == {i \in 1..Len(ls) : ls[i].type = type /\ ls[i].callback = callback} IN
  IF hits = {} THEN ls
  ELSE LET k == CHOOSE i \in hits : \A j \in hits : j <= i IN
       SubSeq(ls, 1, k - 1) \o SubSeq(ls, k + 1, Len(ls))

Listen(identifier) ==
  LET event == EventManager_get(events, identifier)
      err == EventManager_listen_check(event) IN
  /\ err = NoError => Len(listeners) < MaxListeners
  /\ listeners' = IF err = NoError
                  THEN client_on(listeners, event.type, event.callback, identifier)
                  ELSE listeners
  /\ last' = Call("listen", "event", "", identifier, event, FALSE, event # NULL, err)
  /\ UNCHANGED <<heap, snapRef, snapOf, commands, logs, boot>>
  /\ UNCHANGED loadVars
  /\ UNCHANGED dispVars

Mute(identifier) ==
  LET event == EventManager_get(events, identifier)
      err == EventManager_mute_check(event) IN
  /\ listeners' = IF err = NoError
                  THEN client_off(listeners, event.type, event.callback)
                  ELSE listeners
  /\ last' = Call("mute", "event", "", identifier, event, FALSE, event # NULL, err)
  /\ UNCHANGED <<heap, snapRef, snapOf, commands, logs, boot>>
  /\ UNCHANGED loadVars
  /\ UNCHANGED dispVars

\* the events listen and mute are driven with: enabled or disabled, with a
\* callback or without one
ListenEventIds == {"a"}

ListenEvents ==
  [type : RegEventTypes, identifier : ListenEventIds, disabled : BOOLEAN,
   callback : 0..NumCallbacks]

NextListen ==
  \/ \E e \in ListenEvents, f \in BOOLEAN : EventRegister(e, f)
  \/ \E i \in ListenEventIds : EventRemove(i)
  \/ \E i \in ListenEventIds, e \in ListenEvents : EventUpdate(i, e)
  \/ \E i \in ListenEventIds : Listen(i)
  \/ \E i \in ListenEventIds : Mute(i)

SpecListen == Init /\ [][NextListen]_vars

---------------------------------------------------------------------------
(* Global command publication: the callback of register_global_commands   *)

register_global_commands_filter_nodisabled(action) ==
  /\ action.type \in {"ChatInput", "MessageContext", "UserContext"}
  /\ action.data # NULL

\* the predicate actions.all is filtered with
register_global_commands_filter(action) ==
  /\ action.type \in {"ChatInput", "MessageContext", "UserContext"}
  /\ ~action.disabled
  /\ action.data # NULL

\* registered.map((action) => action.data), as the set of what it holds
register_global_commands_data(collection) ==
  {collection[k].data : k \in {x \in DOMAIN collection :
                                 register_global_commands_filter(collection[x])}}

\* the callback: one call of client.application.commands.set, which replaces
\* the application's commands when it succeeds
PublishGlobalCommands(ok) ==
  LET data == register_global_commands_data(actions) IN
  /\ commands' = [sent |-> <<data>>, remote |-> IF ok THEN data ELSE commands.remote]
  /\ last' = Call("publish", "action", "", "", NULL, FALSE, FALSE,
                  IF ok THEN NoError ELSE JsError("set failed"))
  /\ UNCHANGED <<heap, snapRef, snapOf, listeners, logs, boot>>
  /\ UNCHANGED loadVars
  /\ UNCHANGED dispVars

\* the data of a command: what names it for the application
CommandData(type, identifier) == [name |-> identifier, type |-> type]

\* the actions publication is driven with: two kinds of command, enabled or
\* disabled, with data or without, and a component that has data
PublishTypes == {"ChatInput", "UserContext", "Button"}

PublishActions ==
  UNION {{[type |-> t, identifier |-> "a", disabled |-> d, callback |-> 1,
           enabled |-> "undefined", data |-> x] :
            d \in BOOLEAN, x \in {NULL, CommandData(t, "a")}} :
         t \in PublishTypes \ {"Button"}}
  \cup {[type |-> "Button", identifier |-> "a", disabled |-> FALSE, callback |-> 1,
         enabled |-> "undefined", data |-> CommandData("Button", "a")]}

NextPublish ==
  \/ \E a \in PublishActions : ActionRegister(a, TRUE)
  \/ \E a \in PublishActions : ActionRemove(a.type, a.identifier)
  \/ \E ok \in BOOLEAN : PublishGlobalCommands(ok)

SpecPublish == Init /\ [][NextPublish]_vars

---------------------------------------------------------------------------
(* The Logger and the errors it builds                                      *)
(* A context is an object: logs.heap holds the objects, logs.logger is the  *)
(* one this.context refers to, logs.error the one the context field of the  *)
(* last error built refers to, logs.built what that object held then.       *)

\* { ...a, ...b }
Spread(a, b) == [k \in (DOMAIN a) \cup (DOMAIN b) |-> IF k \in DOMAIN b THEN b[k] ELSE a[k]]

\* where a new object goes: a place no reference leads to after the assignment
NewObject(lg) == IF lg.error = lg.logger THEN CHOOSE r \in DOMAIN lg.heap : r # lg.logger
                 ELSE lg.logger

Logger_setContext(lg, context) ==
  [lg EXCEPT !.heap[NewObject(lg)] = Spread(lg.heap[lg.logger], context),
             !.logger = NewObject(lg)]

Logger_addContext(lg, key, value) ==
  [lg EXCEPT !.heap[lg.logger] = MapSet(@, key, value)]

Logger_removeContext(lg, key) ==
  [lg EXCEPT !.heap[lg.logger] = MapDelete(@, key)]

Logger_getContext(lg) == Spread(NoContext, lg.heap[lg.logger])

\* new CustomError(code, message, this.context): the error's context is the
\* logger's object itself
Logger_error(lg, code) ==
  [lg EXCEPT !.error = lg.logger, !.code = code, !.built = lg.heap[lg.logger]]

\* the keys and values contexts are made of
LogKeys == {"identifier", "error"}

LogValues == {"a", "b"}

LogContexts == UNION {[ks -> LogValues] : ks \in SUBSET LogKeys}

LogCodes == {"EVENT_NOT_FOUND", "ACTION_NOT_FOUND"}

LoggerStep(lg) ==
  /\ logs' = lg
  /\ UNCHANGED <<listeners, commands, boot>>
  /\ UNCHANGED regVars
  /\ UNCHANGED loadVars
  /\ UNCHANGED dispVars

SetContext(context) ==
  LoggerStep([Logger_setContext(logs, context)
                EXCEPT !.set = [called |-> TRUE, context |-> context]])

AddContext(key, value) ==
  LoggerStep([Logger_addContext(logs, key, value) EXCEPT !.set = NoSet])

RemoveContext(key) == LoggerStep([Logger_removeContext(logs, key) EXCEPT !.set = NoSet])

LogError(code) == LoggerStep([Logger_error(logs, code) EXCEPT !.set = NoSet])

NextLogger ==
  \/ \E c \in LogContexts : SetContext(c)
  \/ \E k \in LogKeys, v \in LogValues : AddContext(k, v)
  \/ \E k \in LogKeys : RemoveContext(k)
  \/ \E c \in LogCodes : LogError(c)

SpecLogger == Init /\ [][NextLogger]_vars

---------------------------------------------------------------------------
(* The start routine                                                        *)
(* boot.pc is where start() is: awaiting actions.loadFolder ("actions"),    *)
(* awaiting events.loadFolder ("events"), awaiting client.login ("login"),  *)
(* returned ("running"), or the process has exited ("exited").              *)

\* loadFolder(root, true, false) of manager m is called
CallLoadFolder(m, root) ==
  /\ mgr' = m
  /\ fsRoot' = root
  /\ optRecursive' = TRUE
  /\ optForce' = FALSE
  /\ LET chk == IF m = "event"
                THEN EventManager_loadFolder_check(root)
                ELSE ActionManager_loadFolder_check(root) IN
     IF chk # NoError
     THEN /\ pc' = "threw"
          /\ thrown' = chk
          /\ stack' = <<>>
     ELSE /\ pc' = "scan"
          /\ thrown' = NoError
          /\ stack' = <<Frame(<<>>, root.entries)>>
  /\ inflight' = {}
  /\ attempts' = <<>>
  /\ result' = <<>>

\* failedFiles.forEach(... failedFile.error.message ...): reading message of
\* an entry that has no error field throws
start_report(failedFiles) ==
  IF \E i \in 1..Len(failedFiles) : "error" \notin DOMAIN failedFiles[i]
  THEN JsError("Cannot read properties of undefined")
  ELSE NoError

start_catch_resume(b, error) == [b EXCEPT !.pc = "running", !.error = error]

\* the catch of start: the error is printed and process.exit(1) is called
start_catch(b, error) == [b EXCEPT !.pc = "exited", !.error = error, !.exit = 1]

\* the events the listen loop calls events.listen for
start_listened_all(collection) == DOMAIN collection

start_listened(collection) ==
  {id \in DOMAIN collection : ~collection[id].disabled /\ collection[id].callback # 0}

\* the orders a loop over a set of identifiers may take
Orders(ids) ==
  {o \in [1..Cardinality(ids) -> ids] : \A i, j \in DOMAIN o : o[i] = o[j] => i = j}

RECURSIVE start_listen(_, _, _, _)

\* the listen loop over the identifiers of order, the listens of failed throwing
start_listen(ls, collection, order, failed) ==
  IF order = <<>> THEN ls
  ELSE LET id == Head(order) IN
       start_listen(IF id \in failed THEN ls
                    ELSE client_on(ls, collection[id].type, collection[id].callback, id),
                    collection, Tail(order), failed)

\* start(): up to the await of actions.loadFolder
Start(actionsRoot, eventsRoot) ==
  /\ boot.pc = "idle"
  /\ pc = "idle"
  /\ CallLoadFolder("action", actionsRoot)
  /\ boot' = [boot EXCEPT !.pc = "actions", !.actionsRoot = actionsRoot,
                          !.eventsRoot = eventsRoot]
  /\ UNCHANGED <<listeners, commands, logs>>
  /\ UNCHANGED regVars
  /\ UNCHANGED dispVars

\* actions.loadFolder has returned: the failures are printed and
\* events.loadFolder is called
StartActionsLoaded ==
  /\ boot.pc = "actions"
  /\ pc = "returned"
  /\ IF start_report(result) # NoError
     THEN /\ boot' = start_catch(boot, start_report(result))
          /\ UNCHANGED loadVars
     ELSE /\ boot' = [boot EXCEPT !.pc = "events"]
          /\ CallLoadFolder("event", boot.eventsRoot)
  /\ UNCHANGED <<listeners, commands, logs>>
  /\ UNCHANGED regVars
  /\ UNCHANGED dispVars

\* events.loadFolder has returned: the failures are printed, every event that is
\* enabled and has a callback is listened to, a listen that throws being caught,
\* and client.login is called
StartEventsLoaded(order, failed) ==
  /\ boot.pc = "events"
  /\ pc = "returned"
  /\ IF start_report(result) # NoError
     THEN /\ boot' = start_catch(boot, start_report(result))
          /\ UNCHANGED listeners
     ELSE /\ order \in Orders(start_listened(events))
          /\ failed \subseteq start_listened(events)
          /\ listeners' = start_listen(listeners, events, order, failed)
          /\ boot' = [boot EXCEPT !.pc = "login", !.listens = order, !.failed = failed,
                                  !.count = Len(order) - Cardinality(failed),
                                  !.login = "pending"]
  /\ UNCHANGED <<commands, logs>>
  /\ UNCHANGED regVars
  /\ UNCHANGED loadVars
  /\ UNCHANGED dispVars

\* a loadFolder of start has thrown: the catch of start
StartLoadThrew ==
  /\ boot.pc \in {"actions", "events"}
  /\ pc = "threw"
  /\ boot' = start_catch(boot, thrown)
  /\ UNCHANGED <<listeners, commands, logs>>
  /\ UNCHANGED regVars
  /\ UNCHANGED loadVars
  /\ UNCHANGED dispVars

\* client.login has settled
StartLoginSettled(ok) ==
  /\ boot.pc = "login"
  /\ boot' = IF ok
             THEN [boot EXCEPT !.pc = "running", !.login = "ok"]
             ELSE start_catch([boot EXCEPT !.login = "failed"], JsError("login failed"))
  /\ UNCHANGED <<listeners, commands, logs>>
  /\ UNCHANGED regVars
  /\ UNCHANGED loadVars
  /\ UNCHANGED dispVars

\* the folders start() finds: missing, not a directory, holding something that
\* is no file, handler files that load and files that do not
StartActionRoots ==
  { Absent, Other, Dir(<<Other>>),
    Dir(<<File(".ts", FALSE, Handler("action", "a", FALSE))>>),
    Dir(<<File(".ts", FALSE, Handler("action", "a", FALSE)), File(".ts", FALSE, NULL)>>) }

StartEventRoots ==
  { Absent, Other,
    Dir(<<File(".ts", FALSE, Handler("event", "a", FALSE))>>),
    Dir(<<File(".ts", FALSE, Handler("event", "a", FALSE)),
          File(".js", FALSE, Handler("event", "b", FALSE))>>),
    Dir(<<File(".ts", FALSE, Handler("event", "d", TRUE)),
          Dir(<<File(".ts", FALSE, Handler("event", "a", FALSE)),
                File(".ts", FALSE, Handler("event", "c", FALSE))>>),
          File(".ts", FALSE, [Handler("event", "b", FALSE) EXCEPT !.callback = 0])>>) }

NextStart ==
  \/ \E a \in StartActionRoots, e \in StartEventRoots : Start(a, e)
  \/ EnterSubfolder
  \/ SkipEntry
  \/ LoadFile
  \/ ImportSettled
  \/ ReturnFolder
  \/ StartActionsLoaded
  \/ \E o \in UNION {Orders(ids) : ids \in SUBSET {"a", "b", "c", "d"}},
        f \in SUBSET {"a", "b", "c", "d"} : StartEventsLoaded(o, f)
  \/ StartLoadThrew
  \/ \E ok \in BOOLEAN : StartLoginSettled(ok)

SpecStart == Init /\ [][NextStart]_vars

---------------------------------------------------------------------------
(* Properties of the registries                                            *)
(* `last` names the call a step made; primed and unprimed state are the    *)
(* registry after and before it.                                           *)

\* the collection of the manager a call was made on, in heap h
Store(h, reg) == IF reg = "action" THEN h.actions ELSE h.events

\* the key a call addresses
KeyOf(c) == IF c.reg = "action" THEN ActionKey(c.type, c.identifier) ELSE c.identifier

\* get / has on the manager a call was made on
GetOf(h, c) ==
  IF c.reg = "action"
  THEN ActionManager_get(h.actions, c.type, c.identifier)
  ELSE EventManager_get(h.events, c.identifier)

HasOf(h, c) ==
  IF c.reg = "action"
  THEN ActionManager_has(h.actions, c.type, c.identifier)
  ELSE EventManager_has(h.events, c.identifier)

\* every entry under a key other than k is the same in m and n
SameExcept(m, n, k) ==
  \A x \in ((DOMAIN m) \cup (DOMAIN n)) \ {k} : MapGet(m, x) = MapGet(n, x)

\* the taxonomy codes of the two registries
IdentifierAlreadyExists(reg) ==
  IF reg = "action"
  THEN CustomError("ACTION_IDENTIFIER_ALREADY_EXISTS")
  ELSE CustomError("EVENT_IDENTIFIER_ALREADY_EXISTS")

NotFound(reg) ==
  IF reg = "action" THEN CustomError("ACTION_NOT_FOUND") ELSE CustomError("EVENT_NOT_FOUND")

\* C1: in both registries, right after a register(r) that did not throw,
\* get on r's category and identifier returns r and has returns true.
C1_RegisterThenGet ==
  (last.op = "register" /\ last.err = NoError)
    => (GetOf(heap, last) = last.rec /\ HasOf(heap, last))

\* a forced register replaced another record and the new one is looked up
C1_Witness ==
  /\ last.op = "register"
  /\ last.reg = "action"
  /\ last.err = NoError
  /\ last.existed
  /\ last.force
  /\ ActionManager_get(actions, last.type, last.identifier) = last.rec

\* C2: in both registries register(r, force=false) on an occupied key fails with
\* the taxonomy error ActionIdentifierAlreadyExists / EventIdentifierAlreadyExists
\* and leaves the registry as it was.
C2_DuplicateFailsWithTaxonomyError ==
  [][(last'.op = "register" /\ ~last'.force /\ HasOf(heap, last'))
       => (/\ last'.err = IdentifierAlreadyExists(last'.reg)
           /\ heap' = heap)]_vars

\* C3: in both registries register(r, force=true) never fails; it stores r under
\* r's key, keeps the number of entries when the key was occupied, and leaves
\* every entry under another key alone.
C3_ForcedRegisterOverwrites ==
  [][(last'.op = "register" /\ last'.force)
       => (/\ last'.err = NoError
           /\ GetOf(heap', last') = last'.rec
           /\ HasOf(heap, last')
                => Cardinality(DOMAIN Store(heap', last'.reg))
                     = Cardinality(DOMAIN Store(heap, last'.reg))
           /\ SameExcept(Store(heap, last'.reg), Store(heap', last'.reg), KeyOf(last'))
           /\ Store(heap', IF last'.reg = "action" THEN "event" ELSE "action")
                = Store(heap, IF last'.reg = "action" THEN "event" ELSE "action"))]_vars

\* a forced register replaced the event under an occupied key, another entry stands
C3_Witness ==
  /\ last.op = "register"
  /\ last.reg = "event"
  /\ last.force
  /\ last.existed
  /\ last.err = NoError
  /\ events[last.identifier] = last.rec
  /\ Cardinality(DOMAIN events) = 2

\* C4: in both registries remove(k) never fails and get(k) is absent after it,
\* whether or not k was registered; removing an absent key changes nothing,
\* removing a present key changes no other entry.
C4_RemoveThenAbsent ==
  [][(last'.op = "remove")
       => (/\ last'.err = NoError
           /\ GetOf(heap', last') = NULL
           /\ ~HasOf(heap', last')
           /\ ~HasOf(heap, last') => heap' = heap
           /\ SameExcept(Store(heap, last'.reg), Store(heap', last'.reg), KeyOf(last'))
           /\ Store(heap', IF last'.reg = "action" THEN "event" ELSE "action")
                = Store(heap, IF last'.reg = "action" THEN "event" ELSE "action"))]_vars

\* a present event was removed and the other event is still registered
C4_Witness ==
  /\ last.op = "remove"
  /\ last.reg = "event"
  /\ last.existed
  /\ last.identifier \notin DOMAIN events
  /\ Cardinality(DOMAIN events) = 1

\* C5: in both registries update on an absent key fails with the taxonomy error
\* ActionNotFound / EventNotFound and changes nothing; on a present key it
\* replaces the record under that key and adds or removes no key.
C5_UpdateNotFoundTaxonomyError ==
  [][(last'.op = "update")
       => IF HasOf(heap, last')
          THEN /\ last'.err = NoError
               /\ Store(heap', last'.reg)[KeyOf(last')] = last'.rec
               /\ DOMAIN Store(heap', last'.reg) = DOMAIN Store(heap, last'.reg)
               /\ SameExcept(Store(heap, last'.reg), Store(heap', last'.reg), KeyOf(last'))
          ELSE /\ last'.err = NotFound(last'.reg)
               /\ heap' = heap]_vars

\* C8: the Event Registry keys on the identifier alone: register(e, force=false)
\* when an event with e's identifier is registered, whatever its event type,
\* fails with EventIdentifierAlreadyExists and get keeps returning the first.
C8_EventKeyIsIdentifier ==
  [][(/\ last'.op = "register"
      /\ last'.reg = "event"
      /\ ~last'.force
      /\ EventManager_get(events, last'.identifier) # NULL)
       => (/\ last'.err = CustomError("EVENT_IDENTIFIER_ALREADY_EXISTS")
           /\ EventManager_get(events', last'.identifier)
                = EventManager_get(events, last'.identifier))]_vars

\* a register of an event failed against a stored event of another event type
C8_Witness ==
  /\ last.op = "register"
  /\ last.reg = "event"
  /\ ~last.force
  /\ last.err = CustomError("EVENT_IDENTIFIER_ALREADY_EXISTS")
  /\ last.identifier \in DOMAIN events
  /\ events[last.identifier].identifier = last.identifier
  /\ events[last.identifier].type # last.rec.type

\* C6: the Collection returned by `all` is independent of the registry: it holds
\* the registry's entries when returned; setting or deleting keys in it changes
\* neither registry (so neither get, has nor a later `all`), and registry
\* mutations do not change the key set of a Collection already returned.
C6_SnapshotIndependent ==
  [][/\ (last'.op = "all") => (heap'[snapRef'] = Store(heap, last'.reg)
                                /\ heap'.actions = heap.actions
                                /\ heap'.events = heap.events)
     /\ (last'.op \in {"snapshot.set", "snapshot.delete"})
          => (heap'.actions = heap.actions /\ heap'.events = heap.events)
     /\ (last'.op \in {"register", "update", "remove"} /\ snapRef # "null")
          => (DOMAIN heap'[snapRef'] = DOMAIN heap[snapRef])]_vars

\* a key was deleted from a returned Collection and the registry still has it
C6_Witness ==
  /\ last.op = "snapshot.delete"
  /\ last.reg = "event"
  /\ last.existed
  /\ last.identifier \notin DOMAIN heap[snapRef]
  /\ last.identifier \in DOMAIN events

\* C7: the Action Registry's key, prefix + "-" + identifier, is injective over the
\* twelve categories: distinct (category, identifier) pairs never share a key, a
\* register with force=false fails only against an entry of the same category
\* and identifier, and get returns each stored record under its own category.
C7_ActionKeyInjective ==
  /\ \A k \in DOMAIN actions, t \in ActionType, i \in KeyIdentifiers :
       (ActionKey(t, i) = k) => (t = actions[k].type /\ i = actions[k].identifier)
  /\ (last.op = "register" /\ last.err # NoError)
       => \E k \in DOMAIN actions :
            actions[k].type = last.type /\ actions[k].identifier = last.identifier
  /\ \A k \in DOMAIN actions :
       ActionManager_get(actions, actions[k].type, actions[k].identifier) = actions[k]

\* one identifier is registered under two categories, each found under its own
C7_Witness ==
  /\ last.op = "register"
  /\ ~last.force
  /\ last.err = NoError
  /\ \E t \in ActionType \ {last.type} :
       /\ ActionManager_has(actions, t, last.identifier)
       /\ ActionManager_get(actions, t, last.identifier).type = t
       /\ ActionManager_get(actions, last.type, last.identifier) = last.rec

---------------------------------------------------------------------------
(* Properties of the folder loaders *)

RECURSIVE RegularFiles(_, _, _)

\* the regular files under directory `folder` at `path`, with their paths;
\* below the first level only when `deep`
RegularFiles(folder, path, deep) ==
  UNION { LET e == folder.entries[i]
              p == Append(path, i) IN
          IF e.kind = "file" THEN {[path |-> p, file |-> e]}
          ELSE IF e.kind = "dir" /\ deep THEN RegularFiles(e, p, deep)
          ELSE {}
          : i \in 1..Len(folder.entries) }

\* a valid handler file: a .js/.ts module whose import yields a default export
\* that is not disabled
ValidFile(f) ==
  /\ f.ext \in {".js", ".ts"}
  /\ ~f.throws
  /\ f.default # NULL
  /\ ~f.default.disabled

\* the key a handler is registered under by manager m
HandlerKey(m, h) == IF m = "action" THEN ActionKey(h.type, h.identifier) ELSE h.identifier

\* the valid files of the tree have pairwise distinct keys
DistinctKeys ==
  \A x, y \in {z \in RegularFiles(fsRoot, <<>>, TRUE) : ValidFile(z.file)} :
    (HandlerKey(mgr, x.file.default) = HandlerKey(mgr, y.file.default)) => (x = y)

\* a recursive loadFolder has returned: N handlers registered, one failure per
\* invalid file, with its path
LoadCounts ==
  LET all == RegularFiles(fsRoot, <<>>, TRUE)
      valid == {z \in all : ValidFile(z.file)}
      invalid == all \ valid IN
  /\ Cardinality(DOMAIN Store(heap, mgr)) = Cardinality(valid)
  /\ Len(result) = Cardinality(invalid)
  /\ {result[j].path : j \in 1..Len(result)} = {z.path : z \in invalid}

\* no file of the tree exports a disabled handler
NoDisabledFile ==
  \A z \in RegularFiles(fsRoot, <<>>, TRUE) :
    z.file.default # NULL => ~z.file.default.disabled

\* C9: for both folder loaders, loadFolder(root, recursive=true) on an empty
\* registry over a tree with N valid handler files of pairwise distinct keys and
\* M invalid files registers exactly N handlers and returns exactly M failures,
\* one per invalid file with its path, at any depth and position.
\* Stated here for the trees without a disabled handler file, the invalid files
\* being those with another extension, without default export or whose import
\* throws.
C9_LoadFolderCounts ==
  (pc = "returned" /\ optRecursive /\ DistinctKeys /\ NoDisabledFile) => LoadCounts

\* the EventManager half of C9, disabled handler files included
C9_EventLoadFolderCounts ==
  (mgr = "event" /\ pc = "returned" /\ optRecursive /\ DistinctKeys) => LoadCounts

\* the files loadFolder has to attempt: all regular files, those of
\* subdirectories only when recursive
FilesInScope == RegularFiles(fsRoot, <<>>, optRecursive)

\* C10: one bad file never aborts the scan: a loadFolder call on a directory
\* never throws; when it has returned, load() was called for every regular file
\* of the tree; and a load() that fails is recorded in the failure list of the
\* running loop, which goes on with the next entry.
C10_BadFileNeverAborts ==
  /\ [](fsRoot.kind = "dir" => pc # "threw")
  /\ [](pc = "returned"
          => \A z \in FilesInScope : \E j \in 1..Len(attempts) : attempts[j].path = z.path)
  /\ [][(Len(attempts') > Len(attempts) /\ attempts'[Len(attempts')].err # NoError)
          => (/\ pc' = "scan"
              /\ Len(stack') = Len(stack)
              /\ stack'[1].i = stack[1].i + 1
              /\ Len(stack'[1].failedFiles) = Len(stack[1].failedFiles) + 1
              /\ stack'[1].failedFiles[Len(stack'[1].failedFiles)].path
                   = attempts'[Len(attempts')].path)]_vars

\* the call has returned after a load that failed and a later load that succeeded
C10_Witness ==
  /\ pc = "returned"
  /\ \E j \in 1..Len(attempts) :
       /\ attempts[j].err # NoError
       /\ j < Len(attempts)
       /\ attempts[Len(attempts)].err = NoError

---------------------------------------------------------------------------
(* Properties of load(file, force) *)

\* the error the validation of a file ends with, in the order of the checks:
\* exists, regular file, extension, default export, disabled flag
FirstFailingCheck(file) ==
  IF file.kind = "absent" THEN CustomError("FILE_NOT_FOUND")
  ELSE IF file.kind # "file" THEN CustomError("INVALID_FILE_TYPE")
  ELSE IF file.ext \notin {".js", ".ts"} THEN CustomError("INVALID_FILE_TYPE")
  ELSE IF file.throws THEN ImportError
  ELSE IF file.default = NULL THEN CustomError("NO_DEFAULT_EXPORT")
  ELSE IF file.default.disabled THEN CustomError("EVENT_DISABLED")
  ELSE NoError

DisabledFiles ==
  {z \in FilesInScope :
     /\ z.file.ext \in {".js", ".ts"}
     /\ ~z.file.throws
     /\ z.file.default # NULL
     /\ z.file.default.disabled}

\* C12: for both folder loaders a file whose default export has disabled = true
\* is never registered: its load fails, loadFolder reports the file in its
\* failure list, and the registry holds no entry for that handler.
C12_DisabledNeverRegistered ==
  /\ \A k \in DOMAIN Store(heap, mgr) : ~Store(heap, mgr)[k].disabled
  /\ \A j \in 1..Len(attempts) :
       (\E z \in DisabledFiles : z.path = attempts[j].path) => attempts[j].err # NoError
  /\ pc = "returned"
       => \A z \in DisabledFiles : \E j \in 1..Len(result) : result[j].path = z.path

\* the EventManager half of C12
C12_EventDisabledNeverRegistered ==
  mgr = "event" => C12_DisabledNeverRegistered

---------------------------------------------------------------------------
(* Properties of the top-level loadFolder call *)

RECURSIVE FileAt(_, _)

\* the entry of the tree under `root` that `path` names
FileAt(root, path) ==
  IF path = <<>> THEN root ELSE FileAt(root.entries[Head(path)], Tail(path))

RECURSIVE Replay(_, _)

\* the registry made of the handlers of the loads of `log` that succeeded, in
\* order; the loads that failed take no part
Replay(log, n) ==
  IF n = 0 THEN EmptyMap
  ELSE IF log[n].err # NoError THEN Replay(log, n - 1)
  ELSE LET h == FileAt(fsRoot, log[n].path).default IN
       MapSet(Replay(log, n - 1), HandlerKey(mgr, h), h)

\* the modules of the tree that import without a default export
NoDefaultFiles ==
  {z \in FilesInScope :
     z.file.ext \in {".js", ".ts"} /\ ~z.file.throws /\ z.file.default = NULL}

RECURSIVE DepthFirst(_, _, _, _)

\* the regular files below a directory listing in depth-first readdir order,
\* from entry i on; subdirectories are entered only when `deep`
DepthFirst(entries, path, i, deep) ==
  IF i > Len(entries) THEN <<>>
  ELSE LET e == entries[i]
           p == Append(path, i) IN
       (IF e.kind = "file" THEN <<[path |-> p, file |-> e]>>
        ELSE IF e.kind = "dir" /\ deep THEN DepthFirst(e.entries, p, 1, deep)
        ELSE <<>>)
         \o DepthFirst(entries, path, i + 1, deep)

\* the valid handler files of the tree in traversal order
ValidInOrder ==
  SelectSeq(DepthFirst(fsRoot.entries, <<>>, 1, optRecursive), LAMBDA z : ValidFile(z.file))

---------------------------------------------------------------------------
(* Properties of the interaction handler                                    *)
(* A stimulus is described by its own fields: its category is the shape it  *)
(* has when that shape is an action category, its name the commandName or   *)
(* customId it carries.                                                     *)

\* the category of a stimulus, "null" when its shape is none of the categories
CategoryOf(i) == IF i.kind \in ActionType THEN i.kind ELSE "null"

\* the name a stimulus carries
NameOf(i) == IF i.kind \in CommandKinds THEN i.commandName ELSE i.customId

\* the text of a code for a locale, the code's default when the locale has none
TextOf(code, locale) ==
  IF locale \in DOMAIN messages[code] THEN messages[code][locale] ELSE messages[code].default

\* the one ephemeral reply carrying the text of `code`
ReplyOf(code, locale) == <<[content |-> TextOf(code, locale), flags |-> {"Ephemeral"}]>>

\* a step of run d that starts a dispatch
Starts(d) ==
  /\ dispatches[d].pc \in {"idle", "done", "rejected"}
  /\ dispatches'[d].pc \in {"callback", "message"}

\* the handler registered for a stimulus when its dispatch starts
HandlerFor(i) == ActionManager_get(actions, CategoryOf(i), NameOf(i))

\* C16: dispatch of a stimulus that classify maps to no category always ends
\* with the UnsupportedInteractionType error translated into a reply: no
\* callback is invoked, the registry is not consulted, and nothing is thrown
\* out of the dispatcher.
C16_UnsupportedNeverThrows ==
  \A d \in DispatchIds :
    LET run == dispatches[d] IN
    (run.pc # "idle" /\ CategoryOf(run.interaction) = "null")
      => /\ run.error = CustomError("INTERACTION_TYPE_NOT_SUPPORTED")
         /\ run.calls = <<>>
         /\ run.gets = <<>>
         /\ run.pc \in {"reply", "done"}
              => run.replies = ReplyOf("INTERACTION_TYPE_NOT_SUPPORTED", run.interaction.locale)
         /\ run.pc # "rejected"
         /\ run.rejected = NoError

\* C16 but for the reply that fails: the unsupported stimulus is answered, no
\* callback is invoked and no lookup made
C16_UnsupportedIsAnswered ==
  \A d \in DispatchIds :
    LET run == dispatches[d] IN
    (run.pc # "idle" /\ CategoryOf(run.interaction) = "null")
      => /\ run.error = CustomError("INTERACTION_TYPE_NOT_SUPPORTED")
         /\ run.calls = <<>>
         /\ run.gets = <<>>
         /\ run.pc \in {"reply", "done", "rejected"}
              => run.replies = ReplyOf("INTERACTION_TYPE_NOT_SUPPORTED", run.interaction.locale)

\* C17: dispatch of a stimulus whose category and identifier resolve to a
\* registered, enabled, callback-bearing handler invokes that handler's callback
\* exactly once, with the original stimulus as its argument, and invokes no
\* other; when the callback completes without raising, no error reply is sent.
C17_CallbackInvokedOnce ==
  /\ [][\A d \in DispatchIds :
          LET i == dispatches'[d].interaction
              h == HandlerFor(i) IN
          (/\ Starts(d)
           /\ CategoryOf(i) # "null"
           /\ NameOf(i) # ""
           /\ h # NULL
           /\ ~h.disabled
           /\ h.callback # 0)
            => /\ dispatches'[d].calls = <<[callback |-> h.callback, interaction |-> i]>>
               /\ dispatches'[d].pc = "callback"
               /\ dispatches'[d].error = NoError]_vars
  /\ [][\A d \in DispatchIds :
          ~Starts(d) => dispatches'[d].calls = dispatches[d].calls]_vars
  /\ [](\A d \in DispatchIds :
          /\ Len(dispatches[d].calls) <= 1
          /\ dispatches[d].error = NoError
               => (dispatches[d].replies = <<>> /\ dispatches[d].pc \in {"idle", "callback", "done"}))

\* a dispatch of an autocomplete stimulus has ended well: the autocomplete
\* handler's callback was called, not the one of the command with the same name
C17_Witness ==
  \E d \in DispatchIds :
    LET run == dispatches[d] IN
    /\ run.pc = "done"
    /\ run.error = NoError
    /\ run.interaction.kind = "Autocomplete"
    /\ ActionManager_has(actions, "ChatInput", "a")
    /\ ActionManager_has(actions, "Autocomplete", "a")
    /\ ActionManager_get(actions, "ChatInput", "a").callback = 1
    /\ run.calls = <<[callback |-> 2, interaction |-> run.interaction]>>
    /\ run.replies = <<>>

\* the dispatch of run d started on a handler whose disabled flag is set
StartsOnDisabled(d) ==
  LET i == dispatches'[d].interaction IN
  /\ Starts(d)
  /\ CategoryOf(i) # "null"
  /\ NameOf(i) # ""
  /\ HandlerFor(i) # NULL
  /\ HandlerFor(i).disabled

\* C18 as stated: dispatch to a handler whose disabled flag is true never
\* invokes its callback and yields the ActionDisabled error as the reply.
C18_DisabledRepliesActionDisabled ==
  /\ [][\A d \in DispatchIds :
          StartsOnDisabled(d)
            => /\ dispatches'[d].calls = <<>>
               /\ dispatches'[d].error = CustomError("ACTION_DISABLED")]_vars
  /\ [](\A d \in DispatchIds :
          LET run == dispatches[d] IN
          run.error = CustomError("ACTION_DISABLED")
            => /\ run.calls = <<>>
               /\ run.pc \in {"reply", "done", "rejected"}
                    => run.replies = ReplyOf("ACTION_DISABLED", run.interaction.locale))

\* C18 amended: dispatch to a handler whose disabled flag is true never invokes
\* its callback and ends with the ActionDisabled error; the ActionDisabled text
\* is sent as the reply when the stimulus is repliable, and an autocomplete
\* stimulus, which is not, gets no reply.
C18_DisabledYieldsActionDisabled ==
  /\ [][\A d \in DispatchIds :
          StartsOnDisabled(d)
            => /\ dispatches'[d].calls = <<>>
               /\ dispatches'[d].error = CustomError("ACTION_DISABLED")]_vars
  /\ [](\A d \in DispatchIds :
          LET run == dispatches[d] IN
          run.error = CustomError("ACTION_DISABLED")
            => /\ run.calls = <<>>
               /\ run.pc \in {"reply", "done", "rejected"}
                    => run.replies =
                         IF run.interaction.kind = "Autocomplete"
                         THEN <<>>
                         ELSE ReplyOf("ACTION_DISABLED", run.interaction.locale))

\* a handler was disabled through update and a dispatch to it was answered
\* with the ActionDisabled text
C18_Witness ==
  \E d \in DispatchIds :
    LET run == dispatches[d] IN
    /\ last.op = "update"
    /\ last.existed
    /\ last.rec.disabled
    /\ last.rec.callback # 0
    /\ run.action = last.rec
    /\ run.pc = "done"
    /\ run.calls = <<>>
    /\ run.replies = ReplyOf("ACTION_DISABLED", "fr")

\* the dispatch of run d started on a classifiable stimulus that has no name
\* or no handler registered under its category and name
StartsOnMissing(d) ==
  LET i == dispatches'[d].interaction IN
  /\ Starts(d)
  /\ CategoryOf(i) # "null"
  /\ (NameOf(i) = "" \/ HandlerFor(i) = NULL)

\* C19 as stated: dispatch of a classifiable stimulus for which no handler is
\* registered under (category, identifier), or whose identifier is none or
\* empty, invokes no callback and replies with the ActionNotFound message
\* localized for the stimulus's locale, sent as an ephemeral reply.
C19_MissingRepliesActionNotFound ==
  /\ [][\A d \in DispatchIds :
          StartsOnMissing(d)
            => /\ dispatches'[d].calls = <<>>
               /\ dispatches'[d].error = CustomError("ACTION_NOT_FOUND")]_vars
  /\ [](\A d \in DispatchIds :
          LET run == dispatches[d] IN
          run.error = CustomError("ACTION_NOT_FOUND")
            => /\ run.calls = <<>>
               /\ run.pc \in {"reply", "done", "rejected"}
                    => run.replies = ReplyOf("ACTION_NOT_FOUND", run.interaction.locale))

\* C19 amended: such a dispatch invokes no callback and ends with the
\* ActionNotFound error; when the stimulus is repliable it sends one ephemeral
\* reply with the ActionNotFound message for the stimulus's locale (the default
\* text when the locale has none), and an autocomplete stimulus, which is not
\* repliable, gets no reply.
C19_MissingYieldsActionNotFound ==
  /\ [][\A d \in DispatchIds :
          StartsOnMissing(d)
            => /\ dispatches'[d].calls = <<>>
               /\ dispatches'[d].error = CustomError("ACTION_NOT_FOUND")]_vars
  /\ [](\A d \in DispatchIds :
          LET run == dispatches[d] IN
          run.error = CustomError("ACTION_NOT_FOUND")
            => /\ run.calls = <<>>
               /\ run.pc \in {"reply", "done", "rejected"}
                    => run.replies =
                         IF run.interaction.kind = "Autocomplete"
                         THEN <<>>
                         ELSE ReplyOf("ACTION_NOT_FOUND", run.interaction.locale))

\* a French user's button with no handler registered was answered with the
\* French ActionNotFound text, after a lookup that found nothing
C19_Witness ==
  \E d \in DispatchIds :
    LET run == dispatches[d] IN
    /\ run.pc = "done"
    /\ run.interaction.kind = "Button"
    /\ run.interaction.locale = "fr"
    /\ Len(run.gets) = 1
    /\ run.action = NULL
    /\ run.calls = <<>>
    /\ run.replies = <<[content |-> "L'action specifiee est introuvable.",
                        flags |-> {"Ephemeral"}]>>

\* C20: the dispatcher's checks run in the order classify, extract identifier,
\* resolve handler, disabled, callback present, and the first failing check
\* decides the error: an unsupported stimulus fails as such whatever its name,
\* a stimulus without name fails before any lookup, a registered enabled
\* handler with no callback yields ActionWithoutCallback, and a handler both
\* disabled and without callback yields ActionDisabled.
C20_DispatchCheckOrder ==
  [][\A d \in DispatchIds :
       LET i == dispatches'[d].interaction
           h == HandlerFor(i)
           run == dispatches'[d] IN
       Starts(d)
         => IF CategoryOf(i) = "null"
            THEN /\ run.error = CustomError("INTERACTION_TYPE_NOT_SUPPORTED")
                 /\ run.gets = <<>>
                 /\ run.calls = <<>>
            ELSE IF NameOf(i) = ""
            THEN /\ run.error = CustomError("ACTION_NOT_FOUND")
                 /\ run.gets = <<>>
                 /\ run.calls = <<>>
            ELSE IF h = NULL
            THEN /\ run.error = CustomError("ACTION_NOT_FOUND")
                 /\ run.gets = <<[type |-> CategoryOf(i), identifier |-> NameOf(i)]>>
                 /\ run.calls = <<>>
            ELSE IF h.disabled
            THEN /\ run.error = CustomError("ACTION_DISABLED")
                 /\ run.calls = <<>>
            ELSE IF h.callback = 0
            THEN /\ run.error = CustomError("ACTION_WITHOUT_CALLBACK")
                 /\ run.calls = <<>>
            ELSE /\ run.error = NoError
                 /\ Len(run.calls) = 1]_vars

\* a dispatch to a handler both disabled and without callback has ended with
\* ActionDisabled
C20_Witness ==
  \E d \in DispatchIds :
    LET run == dispatches[d] IN
    /\ run.pc = "done"
    /\ run.action # NULL
    /\ run.action.disabled
    /\ run.action.callback = 0
    /\ run.error = CustomError("ACTION_DISABLED")
    /\ run.calls = <<>>

---------------------------------------------------------------------------
(* Properties of message resolution                                         *)

\* a code has a non-empty text under a key of its message
HasText(code, key) == key \in DOMAIN messages[code] /\ messages[code][key] # ""

\* the fallback chain, written on the table
ResolvedText(code, locale) ==
  IF HasText(code, locale) THEN messages[code][locale]
  ELSE IF HasText(code, "default") THEN messages[code].default
  ELSE IF HasText("UNKNOWN_ERROR", locale) THEN messages.UNKNOWN_ERROR[locale]
  ELSE messages.UNKNOWN_ERROR.default

\* C21: message resolution for an error code and a locale returns the code's
\* text for that locale when present, else the code's default, else
\* UnknownError's text for the locale, else UnknownError's default; for every
\* taxonomy code and every locale the chain ends in a non-empty string.
C21_MessageResolution ==
  \A d \in DispatchIds :
    LET run == dispatches[d] IN
    (run.pc \in {"message", "reply", "done", "rejected"} /\ run.error.name = "CustomError")
      => /\ run.content = ResolvedText(run.error.code, run.interaction.locale)
         /\ run.content \notin {"", "undefined", "null"}
         /\ run.content \in {messages[c][k] : c \in {run.error.code, "UNKNOWN_ERROR"},
                                               k \in {"default", "fr"}}

\* a callback threw an error of the taxonomy that the dispatcher itself never
\* raises, for a user whose locale has no text: the code's default was resolved
C21_Witness ==
  \E d \in DispatchIds :
    LET run == dispatches[d] IN
    /\ run.pc = "done"
    /\ run.error = CustomError("FOLDER_NOT_FOUND")
    /\ run.interaction.locale = "de"
    /\ run.content = "The specified folder was not found."
    /\ run.replies = <<[content |-> run.content, flags |-> {"Ephemeral"}]>>

---------------------------------------------------------------------------
(* Properties of the error reply                                            *)

\* a stimulus that can be replied to: any but an autocomplete one
RepliableStimulus(i) == i.kind \notin {"Autocomplete"}

\* C22: on a failed dispatch an error reply is sent only when the stimulus is
\* repliable; when it is not repliable no reply is sent, nothing is retried and
\* the dispatch still ends normally; when it is repliable exactly one reply is
\* sent and it is ephemeral.
C22_ReplyOnlyWhenRepliable ==
  /\ [](\A d \in DispatchIds :
          LET run == dispatches[d] IN
          /\ run.error = NoError => run.replies = <<>>
          /\ (run.error # NoError /\ ~RepliableStimulus(run.interaction))
               => /\ run.replies = <<>>
                  /\ run.pc \in {"message", "done"}
                  /\ run.rejected = NoError
          /\ (run.error # NoError /\ RepliableStimulus(run.interaction))
               => /\ run.pc = "message" => run.replies = <<>>
                  /\ run.pc \in {"reply", "done", "rejected"}
                       => /\ Len(run.replies) = 1
                          /\ run.replies[1].flags = {"Ephemeral"}
                          /\ run.replies[1].content = run.content)
  /\ [][\A d \in DispatchIds :
          LET run == dispatches[d] IN
          /\ (run.pc = "message" /\ ~RepliableStimulus(run.interaction)
                /\ dispatches'[d] # run)
               => (dispatches'[d].pc = "done" /\ dispatches'[d].replies = <<>>)
          /\ (run.pc \in {"done", "rejected"} /\ ~Starts(d))
               => dispatches'[d] = run]_vars

\* a failed dispatch of an autocomplete stimulus has ended with no reply
C22_Witness ==
  \E d \in DispatchIds :
    LET run == dispatches[d] IN
    /\ run.pc = "done"
    /\ run.interaction.kind = "Autocomplete"
    /\ run.error = CustomError("ACTION_DISABLED")
    /\ run.replies = <<>>

\* C23: no failure escapes the dispatcher: for every stimulus, every registry
\* state and every behaviour of the handler callback (a callback that has
\* replied and then raises, a reply that itself fails), the dispatch completes
\* without raising to the transport.
C23_NoFailureEscapes ==
  \A d \in DispatchIds :
    /\ dispatches[d].pc # "rejected"
    /\ dispatches[d].rejected = NoError

---------------------------------------------------------------------------
(* Properties of listen and mute                                            *)

\* the subscriptions of a callback to a channel
Subscriptions(ls, type, callback) ==
  Cardinality({i \in 1..Len(ls) : ls[i].type = type /\ ls[i].callback = callback})

\* C24: listen(identifier) fails with EventNotFound when the Event Registry has
\* no such entry, with EventDisabled when the entry is disabled, and with
\* EventWithoutCallback when it has no callback, checked in that order, and in
\* each failing case adds no subscription; otherwise it subscribes exactly the
\* entry's callback to the transport channel named by the entry's event type.
C24_ListenChecks ==
  [][last'.op = "listen"
       => /\ events' = events
          /\ IF last'.identifier \notin DOMAIN events
             THEN /\ last'.err = CustomError("EVENT_NOT_FOUND")
                  /\ listeners' = listeners
             ELSE LET e == events[last'.identifier] IN
                  IF e.disabled
                  THEN /\ last'.err = CustomError("EVENT_DISABLED")
                       /\ listeners' = listeners
                  ELSE IF e.callback = 0
                  THEN /\ last'.err = CustomError("EVENT_WITHOUT_CALLBACK")
                       /\ listeners' = listeners
                  ELSE /\ last'.err = NoError
                       /\ Len(listeners') = Len(listeners) + 1
                       /\ SubSeq(listeners', 1, Len(listeners)) = listeners
                       /\ listeners'[Len(listeners')].type = e.type
                       /\ listeners'[Len(listeners')].callback = e.callback]_vars

\* listen was refused on an entry that is disabled and has no callback either,
\* while the client already had a listener
C24_Witness ==
  /\ last.op = "listen"
  /\ last.err = CustomError("EVENT_DISABLED")
  /\ last.rec # NULL
  /\ last.rec.callback = 0
  /\ Len(listeners) = 1

\* the listeners that listen(identifier) added and that are still on the client
ListenedBy(ls, identifier) == {i \in 1..Len(ls) : ls[i].by = identifier}

\* C25: mute(identifier) is the inverse of listen(identifier): after a
\* successful listen(id) followed, after any registry operations in between
\* (update, forced register), by a successful mute(id), the callback that listen
\* subscribed is no longer subscribed to the transport; mute fails with
\* EventNotFound or EventWithoutCallback under the same checks and then changes
\* no subscription.
C25_MuteIsInverseOfListen ==
  [][last'.op = "mute"
       => /\ events' = events
          /\ IF last'.identifier \notin DOMAIN events
             THEN /\ last'.err = CustomError("EVENT_NOT_FOUND")
                  /\ listeners' = listeners
             ELSE IF events[last'.identifier].callback = 0
             THEN /\ last'.err = CustomError("EVENT_WITHOUT_CALLBACK")
                  /\ listeners' = listeners
             ELSE /\ last'.err = NoError
                  /\ \A i \in ListenedBy(listeners, last'.identifier) :
                       (/\ ListenedBy(listeners, last'.identifier) = {i}
                        /\ Subscriptions(listeners, listeners[i].type, listeners[i].callback) = 1)
                         => Subscriptions(listeners', listeners[i].type,
                                          listeners[i].callback) = 0]_vars

---------------------------------------------------------------------------
(* Properties of global command publication                                 *)

\* the entries of the Action Registry that are to be published
Publishable(collection) ==
  {k \in DOMAIN collection :
     /\ collection[k].type \in {"ChatInput", "MessageContext", "UserContext"}
     /\ collection[k].disabled = FALSE
     /\ collection[k].data # NULL}

\* C26: global command publication sends, in one bulk set call, exactly the
\* data of those Action Registry entries that are command-shaped, not disabled
\* and data-bearing: no disabled, data-less or component-shaped action is
\* published, none that qualifies is omitted, and the call replaces the whole
\* remote set (an empty selection publishes the empty set).
C26_PublishesQualifyingCommands ==
  [][last'.op = "publish"
       => /\ actions' = actions
          /\ Len(commands'.sent) = 1
          /\ \A k \in Publishable(actions) : actions[k].data \in commands'.sent[1]
          /\ \A x \in commands'.sent[1] :
               \E k \in Publishable(actions) : actions[k].data = x
          /\ \A k \in DOMAIN actions :
               k \notin Publishable(actions) => actions[k].data \notin commands'.sent[1]
          /\ Publishable(actions) = {} => commands'.sent[1] = {}
          /\ last'.err = NoError => commands'.remote = commands'.sent[1]]_vars

\* a publication replaced a non-empty remote set while the registry held an
\* enabled command with data, a disabled one with data, and a component
C26_Witness ==
  /\ last.op = "publish"
  /\ last.err = NoError
  /\ commands.remote = {CommandData("ChatInput", "a")}
  /\ ActionManager_has(actions, "UserContext", "a")
  /\ ActionManager_get(actions, "UserContext", "a").disabled
  /\ ActionManager_get(actions, "UserContext", "a").data # NULL
  /\ ActionManager_has(actions, "Button", "a")

---------------------------------------------------------------------------
(* Properties of the Logger                                                 *)

\* C27: the context carried by an error built with Logger.error is a snapshot
\* of the logger's context at throw time: addContext, removeContext or
\* setContext performed on the logger after the error was built do not change
\* the error's context.
C27_ErrorContextIsSnapshot ==
  logs.error # "none" => logs.heap[logs.error] = logs.built

---------------------------------------------------------------------------
(* Properties of the start routine                                          *)

\* a root folder that exists and is a directory
IsDirectory(root) == root.kind = "dir"

\* C28: a startup-level failure is fatal: when the actions or events root
\* folder is missing or not a directory, or when the login with the bot
\* credential fails, the start routine terminates the process with a non-zero
\* exit status; a failure to listen to one single event is not fatal and does
\* not stop startup.
C28_StartupFailureIsFatal ==
  /\ [](/\ boot.pc \in {"events", "login", "running"} => IsDirectory(boot.actionsRoot)
        /\ boot.pc \in {"login", "running"} => IsDirectory(boot.eventsRoot)
        /\ boot.pc = "running" => boot.login = "ok"
        /\ boot.login = "failed" => boot.pc = "exited"
        /\ (boot.pc = "exited") <=> (boot.exit # 0)
        /\ boot.failed # {} => boot.pc \in {"login", "running"} \/ boot.login = "failed")
  /\ [][(/\ boot.pc \in {"actions", "events"}
         /\ pc = "threw"
         /\ boot' # boot)
          => (boot'.pc = "exited" /\ boot'.exit = 1)]_vars
  /\ [][(/\ boot.pc = "actions"
         /\ ~IsDirectory(boot.actionsRoot))
          => (pc = "threw" /\ pc' = "threw")]_vars
  /\ [][(/\ boot.pc = "events"
         /\ ~IsDirectory(boot.eventsRoot))
          => (pc = "threw" /\ pc' = "threw")]_vars
  /\ [][(/\ boot.pc = "events"
         /\ boot'.pc = "login")
          => \A id \in DOMAIN events :
               (~events[id].disabled /\ events[id].callback # 0 /\ id \notin boot'.failed)
                 => /\ Cardinality(ListenedBy(listeners', id)) = 1
                    /\ \A i \in ListenedBy(listeners', id) :
                         /\ listeners'[i].type = events[id].type
                         /\ listeners'[i].callback = events[id].callback]_vars

\* a listen failed, another event was listened to all the same, and the process
\* then exited with status 1 because the login failed
C28_Witness ==
  /\ boot.pc = "exited"
  /\ boot.exit = 1
  /\ boot.login = "failed"
  /\ boot.failed = {"a"}
  /\ Len(listeners) = 1
  /\ listeners[1].by = "b"

---------------------------------------------------------------------------
(* Properties of the lookups                                                *)

\* C29: get and has are pure lookups in both registries: for every category
\* and identifier, registered or not, they never fail and never change the
\* registry (get returns absent/null and has returns false for an unregistered
\* key).
C29_LookupsArePure ==
  [][last'.op \in {"get", "has"}
       => /\ heap' = heap
          /\ last'.err = NoError
          /\ LET store == Store(heap, last'.reg)
                 key == KeyOf(last') IN
             IF last'.op = "get"
             THEN last'.rec = IF key \in DOMAIN store THEN store[key] ELSE NULL
             ELSE last'.existed = (key \in DOMAIN store)]_vars

\* has answered false for an identifier of a category that is no member of
\* ActionType while another identifier of that category was registered
C29_Witness ==
  /\ last.op = "has"
  /\ last.reg = "action"
  /\ last.type = "PrimaryEntryPoint"
  /\ ~last.existed
  /\ "unknown-a" \in DOMAIN actions
  /\ DOMAIN events = {"a"}

\* C30: registering an action whose category is not one of the twelve
\* recognized ones does not fail on account of the category: its key is built
\* with the sentinel prefix "unknown", so it can never collide with, overwrite
\* or be returned for a handler of a recognized category.
C30_UnknownCategorySegregated ==
  /\ [][(last'.op = "register" /\ last'.reg = "action" /\ last'.type \notin ActionType)
          => LET key == "unknown-" \o last'.identifier IN
             /\ last'.err # NoError => (key \in DOMAIN actions /\ ~last'.force)
             /\ last'.err = NoError => (key \in DOMAIN actions' /\ actions'[key] = last'.rec)
             /\ \A k \in (DOMAIN actions) \cup (DOMAIN actions') :
                  k # key => (k \in DOMAIN actions /\ k \in DOMAIN actions'
                              /\ actions'[k] = actions[k])
             /\ \A t \in ActionType, i \in LookupIds \cup {"unknown-unknown-a"} :
                  ActionManager_get(actions', t, i) = ActionManager_get(actions, t, i)]_vars
  /\ [](\A t \in ActionType, i \in LookupIds \cup {"unknown-unknown-a"} :
          LET a == ActionManager_get(actions, t, i) IN
          a # NULL => a.type = t)

\* an action of an unrecognized category named "a" was registered while a
\* button named "unknown-a" and a command named "a" were registered
C30_Witness ==
  /\ last.op = "register"
  /\ last.err = NoError
  /\ last.type = "undefined"
  /\ last.identifier = "a"
  /\ DOMAIN actions = {"unknown-a", "button-unknown-a", "chat-input-a"}

---------------------------------------------------------------------------
(* Properties of the scan                                                   *)

\* the loop of the innermost activation is at an entry that is neither a
\* regular file nor a directory, or at a subdirectory while recursive is false
AtSkippedEntry ==
  /\ pc = "scan"
  /\ stack # <<>>
  /\ stack[1].i <= Len(stack[1].files)
  /\ LET e == stack[1].files[stack[1].i] IN
     \/ e.kind = "other"
     \/ e.kind = "dir" /\ ~optRecursive

\* C31: during loadFolder, a directory entry that is neither a regular file nor
\* a directory, and a subdirectory met when recursive=false, is skipped
\* silently: it adds nothing to the registry and nothing to the failure list,
\* and the scan continues with the next entry.
C31_SkippedSilently ==
  [][AtSkippedEntry
       => /\ heap' = heap
          /\ attempts' = attempts
          /\ inflight' = inflight
          /\ pc' = "scan"
          /\ thrown' = thrown
          /\ Len(stack') = Len(stack)
          /\ Tail(stack') = Tail(stack)
          /\ stack'[1].failedFiles = stack[1].failedFiles
          /\ stack'[1].files = stack[1].files
          /\ stack'[1].i \in {stack[1].i, stack[1].i + 1}]_vars

\* a call with recursive false has returned from a folder that holds a special
\* file and a subfolder with a file in it: nothing was loaded, nothing failed
C31_Witness ==
  /\ pc = "returned"
  /\ ~optRecursive
  /\ fsRoot.kind = "dir"
  /\ \E i, j \in 1..Len(fsRoot.entries) :
       /\ fsRoot.entries[i].kind = "other"
       /\ fsRoot.entries[j].kind = "dir"
       /\ fsRoot.entries[j].entries # <<>>
  /\ attempts = <<>>
  /\ result = <<>>
  /\ actions = EmptyMap
  /\ events = EmptyMap

---------------------------------------------------------------------------
(* Properties of the dispatch of a callback that throws a plain error       *)

\* the UnknownError text of a locale, the default one when the locale has none
UnknownText(locale) ==
  IF locale = "fr" THEN "Une erreur inconnue s'est produite."
  ELSE "An unknown error occurred."

\* C32: when a handler callback raises an error that is not a taxonomy error,
\* the dispatcher replies with the UnknownError message for the stimulus's
\* locale, falling back to UnknownError's default, and never with the message
\* of another code.
C32_PlainErrorRepliesUnknown ==
  \A d \in DispatchIds :
    LET run == dispatches[d] IN
    (run.error.name = "Error" /\ run.pc \in {"reply", "done", "rejected"})
      => run.replies = <<[content |-> UnknownText(run.interaction.locale),
                          flags |-> {"Ephemeral"}]>>

\* C32 as it holds: the error of a callback that is no taxonomy error is
\* translated into the UnknownError message for the stimulus's locale, with
\* UnknownError's default as fallback, and never into the message of another
\* code; that message is the reply when the stimulus is repliable, and a
\* stimulus that is not repliable gets no reply.
C32_PlainErrorYieldsUnknown ==
  \A d \in DispatchIds :
    LET run == dispatches[d] IN
    (run.error.name = "Error" /\ run.pc # "idle")
      => /\ run.content = UnknownText(run.interaction.locale)
         /\ Len(run.calls) = 1
         /\ run.pc \in {"reply", "done", "rejected"}
              => run.replies = IF RepliableStimulus(run.interaction)
                               THEN <<[content |-> UnknownText(run.interaction.locale),
                                       flags |-> {"Ephemeral"}]>>
                               ELSE <<>>

\* the callback of a command threw a plain error for a French user, who was
\* sent the French UnknownError text
C32_Witness ==
  \E d \in DispatchIds :
    LET run == dispatches[d] IN
    /\ run.pc = "done"
    /\ run.error = JsError("callback failed")
    /\ run.interaction.kind = "ChatInput"
    /\ run.interaction.locale = "fr"
    /\ run.replies = <<[content |-> "Une erreur inconnue s'est produite.",
                        flags |-> {"Ephemeral"}]>>

---------------------------------------------------------------------------
(* Properties of the two classifiers                                        *)

\* the shapes that are commands, context menus or autocompletes, and those
\* that are buttons, select menus or modals
NamedShapes == {"ChatInput", "MessageContext", "UserContext", "Autocomplete"}

IdShapes ==
  {"Button", "StringSelectMenu", "UserSelectMenu", "RoleSelectMenu",
   "MentionableSelectMenu", "ChannelSelectMenu", "ModalSubmit"}

\* C33: classify and extractIdentifier are total and agree on every stimulus
\* shape: extractIdentifier returns none exactly when classify returns none;
\* command, context-menu and autocomplete stimuli yield their declared command
\* name, and button, select-menu and modal stimuli yield their custom id.
C33_ClassifiersAgree ==
  \A d \in DispatchIds :
    LET run == dispatches[d]
        i == run.interaction IN
    run.pc # "idle"
      => /\ (getIdentifierFromInteraction(i) = "null")
              <=> (getActionTypeFromInteraction(i) = "null")
         /\ (getActionTypeFromInteraction(i) = "null")
              <=> (i.kind \notin NamedShapes \cup IdShapes)
         /\ i.kind \in NamedShapes
              => /\ getActionTypeFromInteraction(i) = i.kind
                 /\ getIdentifierFromInteraction(i) = i.commandName
                 /\ run.gets = <<[type |-> i.kind, identifier |-> i.commandName]>>
         /\ i.kind \in IdShapes
              => /\ getActionTypeFromInteraction(i) = i.kind
                 /\ getIdentifierFromInteraction(i) = i.customId
                 /\ run.gets = <<[type |-> i.kind, identifier |-> i.customId]>>
         /\ i.kind \notin NamedShapes \cup IdShapes
              => /\ run.gets = <<>>
                 /\ run.error = CustomError("INTERACTION_TYPE_NOT_SUPPORTED")

\* a modal submitted with the custom id of a registered modal reached that
\* modal's callback
C33_Witness ==
  \E d \in DispatchIds :
    LET run == dispatches[d] IN
    /\ run.pc = "done"
    /\ run.error = NoError
    /\ run.interaction.kind = "ModalSubmit"
    /\ run.interaction.customId = "a"
    /\ run.gets = <<[type |-> "ModalSubmit", identifier |-> "a"]>>
    /\ Len(run.calls) = 1

---------------------------------------------------------------------------
(* Properties of the listen loop of start                                   *)

\* the entries of the event registry that start is to listen to
Listenable == {id \in DOMAIN events : ~events[id].disabled /\ events[id].callback # 0}

\* C34: at startup the start routine calls listen exactly once for each Event
\* Registry entry that is enabled and callback-bearing and for no other entry,
\* and only after both folder loads have finished and before login; an error
\* raised by listen for one event is caught and the remaining events are still
\* listened to.
C34_ListensOncePerEnabledEvent ==
  /\ [](/\ boot.pc \in {"idle", "actions", "events"}
          => (listeners = <<>> /\ boot.listens = <<>> /\ boot.login = "none")
        /\ boot.pc \in {"login", "running"}
          => /\ \A i, j \in DOMAIN boot.listens :
                  boot.listens[i] = boot.listens[j] => i = j
             /\ {boot.listens[i] : i \in DOMAIN boot.listens} = Listenable
             /\ \A id \in DOMAIN events :
                  Cardinality(ListenedBy(listeners, id))
                    = IF id \in Listenable \ boot.failed THEN 1 ELSE 0)
  /\ [][(boot.login = "none" /\ boot'.login # "none")
          => /\ boot.pc = "events"
             /\ pc = "returned"
             /\ IsDirectory(boot.actionsRoot)
             /\ boot'.login = "pending"
             /\ listeners = <<>>]_vars
  /\ [][boot.login # "none" => (listeners' = listeners /\ boot'.listens = boot.listens)]_vars

\* an event without a callback was left alone, the listen of one enabled event
\* failed, the other enabled event was listened to all the same, and the login
\* went through
C34_Witness ==
  /\ boot.pc = "running"
  /\ "b" \in DOMAIN events
  /\ events["b"].callback = 0
  /\ Len(boot.listens) = 2
  /\ boot.failed = {"a"}
  /\ Len(listeners) = 1
  /\ listeners[1].by = "c"

---------------------------------------------------------------------------
(* Properties of the order of the loads                                     *)

\* the regular files the call has to attempt, in depth-first readdir order
InOrder == DepthFirst(fsRoot.entries, <<>>, 1, optRecursive)

\* C35: loadFolder over a finite directory tree always terminates, attempts
\* each regular file exactly once, and loads files strictly one after another
\* in depth-first order: within one loadFolder call at most one file load is in
\* flight at any time.
C35_SequentialDepthFirst ==
  /\ <>(pc \in {"returned", "threw"})
  /\ [](fsRoot.kind = "dir" => pc # "threw")
  /\ [](Cardinality(inflight) <= 1)
  /\ [](/\ Len(attempts) <= Len(InOrder)
        /\ \A j \in 1..Len(attempts) : attempts[j].path = InOrder[j].path
        /\ \A z \in inflight : /\ Len(attempts) < Len(InOrder)
                               /\ z = InOrder[Len(attempts) + 1].path)
  /\ [](pc = "returned" => (Len(attempts) = Len(InOrder) /\ inflight = {}))

\* a recursive call has returned after two loads, the first of a file of a
\* subdirectory that comes before a file of the root
C35_Witness ==
  /\ pc = "returned"
  /\ optRecursive
  /\ Len(attempts) = 2
  /\ attempts[1].path = <<1, 1>>
  /\ attempts[2].path = <<2>>

---------------------------------------------------------------------------
(* Properties of dispatches in flight together                              *)

\* C36: with several dispatches in flight and registry mutations interleaved
\* at suspension points, each dispatch resolves its handler and starts its
\* callback without any suspension in between: the callback invoked is the
\* record stored under the key at the instant of invocation, and an update or
\* remove of that key performed while the callback is suspended neither
\* cancels the in-flight callback nor causes a second invocation; later
\* dispatches see the mutated registry.
C36_ResolveAndInvokeAtomically ==
  /\ [](\A d \in DOMAIN dispatches :
          LET run == dispatches[d] IN
          /\ Len(run.calls) <= 1
          /\ (run.gets # <<>> /\ run.error = NoError) => Len(run.calls) = 1
          /\ run.pc = "callback" => Len(run.calls) = 1
          /\ run.calls # <<>> => (/\ run.action # NULL
                                  /\ run.calls[1].callback = run.action.callback
                                  /\ run.calls[1].interaction = run.interaction))
  /\ [][\A d \in DOMAIN dispatches :
          Starts(d)
            => /\ actions' = actions
               /\ dispatches'[d].action = HandlerFor(dispatches'[d].interaction)
               /\ (dispatches'[d].pc = "callback")
                    <=> (HandlerFor(dispatches'[d].interaction) # NULL)]_vars
  /\ [][\A d \in DOMAIN dispatches :
          (dispatches[d].pc = "callback" /\ actions' # actions)
            => dispatches'[d] = dispatches[d]]_vars
  /\ [][\A d \in DOMAIN dispatches :
          (dispatches[d].pc = "callback" /\ dispatches'[d] # dispatches[d])
            => /\ dispatches'[d].calls = dispatches[d].calls
               /\ dispatches'[d].action = dispatches[d].action
               /\ dispatches'[d].pc \in {"done", "message"}]_vars

\* the callback of one dispatch is suspended while its record has been replaced,
\* and a later dispatch has started the callback of the replacing record
C36_Witness ==
  /\ dispatches["d1"].pc = "callback"
  /\ dispatches["d2"].pc = "callback"
  /\ dispatches["d1"].calls[1].callback = 1
  /\ dispatches["d2"].calls[1].callback = 2
  /\ HandlerFor(dispatches["d1"].interaction) = dispatches["d2"].action
  /\ last.op = "update"

---------------------------------------------------------------------------
(* Properties of the dispatcher's effect on the registry                    *)

\* C37: the dispatcher itself never mutates the Action Registry: after any
\* dispatch, whatever its outcome (success or any of the error outcomes), the
\* registry's keys and records are those it had before, apart from changes made
\* by the handler callback or by other interleaved operations.
C37_DispatcherLeavesRegistry ==
  [][(dispatches' # dispatches) => (heap' = heap /\ last' = last)]_vars

\* a dispatch has ended with the reply that the action is disabled, and the
\* disabled action is still registered
C37_Witness ==
  \E d \in DispatchIds :
    LET run == dispatches[d] IN
    /\ run.pc = "done"
    /\ run.error = CustomError("ACTION_DISABLED")
    /\ Len(run.replies) = 1
    /\ HandlerFor(run.interaction) # NULL
    /\ HandlerFor(run.interaction) = run.action
    /\ run.action.disabled

---------------------------------------------------------------------------
(* Properties of the subscriptions against the registry                     *)

\* C38: after any sequence of register, update, remove, listen and mute on the
\* Event Registry, every callback currently subscribed to the transport is the
\* callback of a live registry entry: removing or replacing an event leaves no
\* subscription to a callback that the registry no longer holds.
C38_SubscribersAreLive ==
  \A i \in 1..Len(listeners) :
    \E id \in DOMAIN events :
      /\ events[id].type = listeners[i].type
      /\ events[id].callback = listeners[i].callback

---------------------------------------------------------------------------
(* Properties of the keys against the records stored under them             *)

\* C39: after any sequence of register, update and remove, every entry of a
\* registry is stored under the key computed from its own record (category
\* prefix + "-" + identifier for actions, identifier for events), so
\* get(category, identifier) never returns a record whose own category or
\* identifier differs from the ones asked for.
C39_EntriesUnderOwnKey ==
  /\ \A k \in DOMAIN actions : k = ActionKey(actions[k].type, actions[k].identifier)
  /\ \A k \in DOMAIN events : k = events[k].identifier
  /\ (last.op = "get" /\ last.rec # NULL)
       => /\ last.rec.identifier = last.identifier
          /\ last.reg = "action" => last.rec.type = last.type

---------------------------------------------------------------------------
(* Properties of Logger.setContext                                          *)

\* C40: Logger.setContext overwrites any existing context: after setContext(c)
\* the logger's context, as returned by getContext, holds exactly the keys and
\* values of c, and no key set before the call that is absent from c remains.
C40_SetContextOverwrites ==
  logs.set.called => Logger_getContext(logs) = logs.set.context

====
